---- MODULE Spec2Model ----
(***************************************************************************)
(* Model of tableauserverclient/server/request_factory.py: the builders    *)
(* that turn entity objects into tsRequest XML payloads and multipart      *)
(* bodies.                                                                 *)
(*                                                                         *)
(* Python values are records tagged with their type, so that None, str,    *)
(* bool, int, list and objects can be told apart and str() / truthiness    *)
(* can be computed as Python computes them.  An XML element is a record    *)
(* of a tag, an insertion-ordered attribute list and a child list.         *)
(***************************************************************************)
EXTENDS Naturals, Sequences, FiniteSets, TLC

VARIABLES
    filters,        \* warnings.filters: the process-wide warnings filter list
    group_item,     \* a caller-owned GroupItem
    workbook_item,  \* a caller-owned WorkbookItem
    call,           \* the last builder call and its arguments
    result          \* what that call produced

vars == <<filters, group_item, workbook_item, call, result>>

-----------------------------------------------------------------------------
(* Python values *)

None == [type |-> "NoneType"]

PyStr(s) == [type |-> "str", s |-> s]

PyBool(b) == [type |-> "bool", b |-> b]

PyInt(i) == [type |-> "int", i |-> i]

PyList(items) == [type |-> "list", items |-> items]

IsNone(v) == v.type = "NoneType"

IsStr(v) == v.type = "str"

\* bool(v): None, "", False, 0 and the empty list are falsy; objects are truthy.
Truthy(v) ==
    CASE v.type = "NoneType" -> FALSE
      [] v.type = "str" -> v.s # ""
      [] v.type = "bool" -> v.b
      [] v.type = "int" -> v.i # 0
      [] v.type = "list" -> v.items # <<>>
      [] OTHER -> TRUE

\* a or b
PyOr(a, b) == IF Truthy(a) THEN a ELSE b

\* str(v)
Str(v) ==
    CASE v.type = "NoneType" -> PyStr("None")
      [] v.type = "str" -> v
      [] v.type = "bool" -> PyStr(IF v.b THEN "True" ELSE "False")
      [] v.type = "int" -> PyStr(ToString(v.i))
      [] OTHER -> PyStr("<" \o v.type \o " object>")

\* str.lower(), on the strings the model uses
LowerText(s) ==
    CASE s = "None" -> "none"
      [] s = "True" -> "true"
      [] s = "False" -> "false"
      [] s = "ContentOnly" -> "contentonly"
      [] s = "Enforced" -> "enforced"
      [] s = "DisabledByDefault" -> "disabledbydefault"
      [] s = "DB.Example.COM" -> "db.example.com"
      [] OTHER -> s

Lower(v) == PyStr(LowerText(v.s))

-----------------------------------------------------------------------------
(* xml.etree.ElementTree *)

NoError == ""

\* ET.Element(tag)
Element(tag) == [tag |-> tag, attrib |-> <<>>, children |-> <<>>]

HasAttrib(el, key) == \E i \in 1..Len(el.attrib) : el.attrib[i][1] = key

\* el.attrib[key]
GetAttrib(el, key) ==
    LET i == CHOOSE j \in 1..Len(el.attrib) : el.attrib[j][1] = key
    IN  el.attrib[i][2]

\* el.attrib[key] = value: a dict keeps a key's first position
SetAttrib(el, key, value) ==
    IF HasAttrib(el, key)
    THEN [el EXCEPT !.attrib =
            [i \in 1..Len(@) |-> IF @[i][1] = key THEN <<key, value>> ELSE @[i]]]
    ELSE [el EXCEPT !.attrib = Append(@, <<key, value>>)]

\* the element as the last child of parent (ET.SubElement appends it)
AppendChild(parent, el) == [parent EXCEPT !.children = Append(@, el)]

ChildrenTagged(el, tag) == SelectSeq(el.children, LAMBDA c : c.tag = tag)

\* XML attribute escaping of ElementTree's _escape_attrib
EscapeAttrib(s) ==
    CASE s = "R&D" -> "R&amp;D"
      [] s = "a<b" -> "a&lt;b"
      [] OTHER -> s

RECURSIVE AllAttribsStr(_)
\* ElementTree serializes only str attribute values (anything else: TypeError)
AllAttribsStr(el) ==
    /\ \A i \in 1..Len(el.attrib) : IsStr(el.attrib[i][2])
    /\ \A i \in 1..Len(el.children) : AllAttribsStr(el.children[i])

RECURSIVE SerializeAttribs(_, _)
SerializeAttribs(attrib, i) ==
    IF i > Len(attrib) THEN <<>>
    ELSE <<" " \o attrib[i][1] \o "=\"" \o EscapeAttrib(attrib[i][2].s) \o "\"">>
         \o SerializeAttribs(attrib, i + 1)

RECURSIVE SerializeElement(_)
RECURSIVE SerializeChildren(_, _)
SerializeChildren(children, i) ==
    IF i > Len(children) THEN <<>>
    ELSE SerializeElement(children[i]) \o SerializeChildren(children, i + 1)

\* the element's text form as a sequence of tokens, short empty elements
SerializeElement(el) ==
    <<"<" \o el.tag>> \o SerializeAttribs(el.attrib, 1)
    \o (IF el.children = <<>>
        THEN <<" />">>
        ELSE <<">">> \o SerializeChildren(el.children, 1) \o <<"</" \o el.tag \o ">">>)

ErrSerialize == "TypeError: cannot serialize (type mismatch)"

\* ET.tostring(xml_request)
tostring(xml_request) ==
    IF AllAttribsStr(xml_request)
    THEN [err |-> NoError, bytes |-> SerializeElement(xml_request)]
    ELSE [err |-> ErrSerialize, bytes |-> <<>>]

-----------------------------------------------------------------------------
(* warnings *)

\* a filter entry applies to a category and to its subclasses
FilterMatches(f, category) == f.category = "Warning" \/ f.category = category

RECURSIVE FilterAction(_, _)
\* the action of the first matching entry; "default" when none matches
FilterAction(fs, category) ==
    IF fs = <<>> THEN "default"
    ELSE IF FilterMatches(Head(fs), category) THEN Head(fs).action
    ELSE FilterAction(Tail(fs), category)

\* warnings.simplefilter(action, category): the entry moves to the front
simplefilter(fs, action, category) ==
    LET item == [action |-> action, category |-> category]
    IN  <<item>> \o SelectSeq(fs, LAMBDA f : f # item)

\* warnings.warn(message, category): "raise", "show" or "drop"
WarnOutcome(fs, category) ==
    LET a == FilterAction(fs, category)
    IN  IF a = "error" THEN "raise" ELSE IF a = "ignore" THEN "drop" ELSE "show"

-----------------------------------------------------------------------------
(* what a builder leaves behind *)

\* a step of a builder: the error raised (NoError: none) and the element so far
Ok(el) == [err |-> NoError, el |-> el]

Raise(err, el) == [err |-> err, el |-> el]

\* a step that built a sub-element of parent: the sub-element is attached to
\* parent (ET.SubElement), the exception of the step propagates
Attached(parent, step) == [err |-> step.err, el |-> AppendChild(parent, step.el)]

NoBody == [parts |-> <<>>, closing |-> ""]

\* returned: "nothing" (no call yet, or the call raised), "bytes" (the XML
\* document) or "multipart" (the pair of body and content type).  payload is
\* the serialized tsRequest document, tree the element tree it was built from.
NoResult ==
    [err |-> NoError, returned |-> "nothing", tree |-> Element("none"),
     payload |-> <<>>, content_type |-> <<>>, body |-> NoBody, warnings |-> <<>>]

\* a builder that stops on an exception: nothing is returned; tree is what
\* had been built when the exception was raised
Failed(err, tree, warnings) ==
    [err |-> err, returned |-> "nothing", tree |-> tree,
     payload |-> <<>>, content_type |-> <<>>, body |-> NoBody, warnings |-> warnings]

\* return ET.tostring(xml_request)
Returned(xml_request, warnings) ==
    LET s == tostring(xml_request)
    IN  IF s.err # NoError
        THEN Failed(s.err, xml_request, warnings)
        ELSE [err |-> NoError, returned |-> "bytes", tree |-> xml_request,
              payload |-> s.bytes, content_type |-> <<>>, body |-> NoBody,
              warnings |-> warnings]

\* the end of a builder whose last step built the entity's element: the
\* exception of the step propagates, else return ET.tostring(xml_request)
ReturnedAfter(xml_request, step) ==
    IF step.err # NoError
    THEN Failed(step.err, AppendChild(xml_request, step.el), <<>>)
    ELSE Returned(AppendChild(xml_request, step.el), <<>>)

-----------------------------------------------------------------------------
(* field-to-attribute statements                                           *)
(*   if item.field [is not None]: element.attrib[attr] = [str(]item.field[)][.lower()] *)
(* A rule is <<field, attr, when, how>>: when is "always", "truthy" or     *)
(* "notnone"; how is "raw", "str" or "strlower".                           *)

RuleApplies(item, rule) ==
    CASE rule[3] = "always" -> TRUE
      [] rule[3] = "truthy" -> Truthy(item[rule[1]])
      [] rule[3] = "notnone" -> ~IsNone(item[rule[1]])

RuleValue(item, rule) ==
    CASE rule[4] = "raw" -> item[rule[1]]
      [] rule[4] = "str" -> Str(item[rule[1]])
      [] rule[4] = "strlower" -> Lower(Str(item[rule[1]]))

RECURSIVE ApplyRules(_, _, _)
\* the statements of rules, in order, on element el
ApplyRules(el, item, rules) ==
    IF rules = <<>> THEN el
    ELSE ApplyRules(
            IF RuleApplies(item, Head(rules))
            THEN SetAttrib(el, Head(rules)[2], RuleValue(item, Head(rules)))
            ELSE el,
            item, Tail(rules))

-----------------------------------------------------------------------------
(* SiteRequest *)

\* SiteItem.use_new_flow_settings(parent_srv): the server context's answer
use_new_flow_settings(parent_srv) == parent_srv.new_flow_settings

ErrUserWarning == "UserWarning"

WarnFlowsRemoved ==
    "UserWarning: FlowsEnabled has been removed and become two options: SchedulingFlowsEnabled and EditingFlowsEnabled"

WarnFlowsOnly == "UserWarning: In version 3.10 and earlier there is only one option: FlowsEnabled"

\* the branch for a server with the split flow settings (or no server)
SetSplitFlowAttributes(flows_all, flows_edit, flows_schedule, site_element, site_item) ==
    LET warned == ~IsNone(site_item.flows_enabled)
        outcome == WarnOutcome(filters, "UserWarning")
        edit == IF warned THEN PyOr(flows_edit, flows_all) ELSE flows_edit
        schedule == IF warned THEN PyOr(flows_schedule, flows_all) ELSE flows_schedule
        e1 == IF ~IsNone(site_item.editing_flows_enabled)
              THEN SetAttrib(site_element, "editingFlowsEnabled", edit)
              ELSE site_element
        e2 == IF ~IsNone(site_item.scheduling_flows_enabled)
              THEN SetAttrib(e1, "schedulingFlowsEnabled", schedule)
              ELSE e1
    IN  IF warned /\ outcome = "raise"
        THEN [err |-> ErrUserWarning, el |-> site_element, warnings |-> <<>>]
        ELSE [err |-> NoError, el |-> e2,
              warnings |-> IF warned /\ outcome = "show" THEN <<WarnFlowsRemoved>> ELSE <<>>]

\* the branch for a server with the single flowsEnabled setting
SetLegacyFlowAttributes(flows_all, flows_edit, flows_schedule, site_element, site_item) ==
    LET outcome == WarnOutcome(filters, "UserWarning")
        e1 == IF ~IsNone(site_item.flows_enabled)
              THEN SetAttrib(site_element, "flowsEnabled", Lower(Str(site_item.flows_enabled)))
              ELSE site_element
        split == ~IsNone(site_item.editing_flows_enabled)
                 \/ ~IsNone(site_item.scheduling_flows_enabled)
        all == PyOr(PyOr(flows_all, flows_edit), flows_schedule)
        e2 == IF split THEN SetAttrib(e1, "flowsEnabled", all) ELSE e1
    IN  IF split /\ outcome = "raise"
        THEN [err |-> ErrUserWarning, el |-> e2, warnings |-> <<>>]
        ELSE [err |-> NoError, el |-> e2,
              warnings |-> IF split /\ outcome = "show" THEN <<WarnFlowsOnly>> ELSE <<>>]

\* a faulty variant: the legacy branch is applied after the split branch
\* instead of in its place
set_versioned_flow_attributes_both(flows_all, flows_edit, flows_schedule, parent_srv, site_element, site_item) ==
    LET split == SetSplitFlowAttributes(flows_all, flows_edit, flows_schedule, site_element, site_item)
        legacy == SetLegacyFlowAttributes(flows_all, flows_edit, flows_schedule, split.el, site_item)
    IN  IF split.err # NoError THEN split
        ELSE [legacy EXCEPT !.warnings = split.warnings \o legacy.warnings]

set_versioned_flow_attributes(flows_all, flows_edit, flows_schedule, parent_srv, site_element, site_item) ==
    IF (~Truthy(parent_srv)) \/ use_new_flow_settings(parent_srv)
    THEN SetSplitFlowAttributes(flows_all, flows_edit, flows_schedule, site_element, site_item)
    ELSE SetLegacyFlowAttributes(flows_all, flows_edit, flows_schedule, site_element, site_item)

SiteUpdateRulesBeforeFlows ==
    << <<"name", "name", "truthy", "raw">>,
       <<"content_url", "contentUrl", "truthy", "raw">>,
       <<"admin_mode", "adminMode", "truthy", "raw">>,
       <<"user_quota", "userQuota", "truthy", "str">>,
       <<"state", "state", "truthy", "raw">>,
       <<"storage_quota", "storageQuota", "truthy", "str">>,
       <<"disable_subscriptions", "disableSubscriptions", "notnone", "strlower">>,
       <<"subscribe_others_enabled", "subscribeOthersEnabled", "notnone", "strlower">>,
       <<"revision_limit", "revisionLimit", "truthy", "str">>,
       <<"revision_history_enabled", "revisionHistoryEnabled", "notnone", "strlower">>,
       <<"data_acceleration_mode", "dataAccelerationMode", "notnone", "strlower">>,
       <<"cataloging_enabled", "catalogingEnabled", "notnone", "strlower">> >>

SiteUpdateRulesAfterFlows ==
    << <<"allow_subscription_attachments", "allowSubscriptionAttachments", "notnone", "strlower">>,
       <<"guest_access_enabled", "guestAccessEnabled", "notnone", "strlower">>,
       <<"cache_warmup_enabled", "cacheWarmupEnabled", "notnone", "strlower">>,
       <<"commenting_enabled", "commentingEnabled", "notnone", "strlower">>,
       <<"extract_encryption_mode", "extractEncryptionMode", "notnone", "strlower">>,
       <<"request_access_enabled", "requestAccessEnabled", "notnone", "strlower">>,
       <<"run_now_enabled", "runNowEnabled", "notnone", "strlower">>,
       <<"tier_creator_capacity", "tierCreatorCapacity", "notnone", "strlower">>,
       <<"tier_explorer_capacity", "tierExplorerCapacity", "notnone", "strlower">>,
       <<"tier_viewer_capacity", "tierViewerCapacity", "notnone", "strlower">>,
       <<"data_alerts_enabled", "dataAlertsEnabled", "notnone", "str">>,
       <<"commenting_mentions_enabled", "commentingMentionsEnabled", "notnone", "strlower">>,
       <<"catalog_obfuscation_enabled", "catalogObfuscationEnabled", "notnone", "strlower">>,
       <<"flow_auto_save_enabled", "flowAutoSaveEnabled", "notnone", "strlower">>,
       <<"web_extraction_enabled", "webExtractionEnabled", "notnone", "strlower">>,
       <<"metrics_content_type_enabled", "metricsContentTypeEnabled", "notnone", "strlower">>,
       <<"notify_site_admins_on_throttle", "notifySiteAdminsOnThrottle", "notnone", "strlower">>,
       <<"authoring_enabled", "authoringEnabled", "notnone", "strlower">>,
       <<"custom_subscription_email_enabled", "customSubscriptionEmailEnabled", "notnone", "strlower">>,
       <<"custom_subscription_email", "customSubscriptionEmail", "notnone", "strlower">>,
       <<"custom_subscription_footer_enabled", "customSubscriptionFooterEnabled", "notnone", "strlower">>,
       <<"custom_subscription_footer", "customSubscriptionFooter", "notnone", "strlower">>,
       <<"ask_data_mode", "askDataMode", "notnone", "str">>,
       <<"named_sharing_enabled", "namedSharingEnabled", "notnone", "strlower">>,
       <<"mobile_biometrics_enabled", "mobileBiometricsEnabled", "notnone", "strlower">>,
       <<"sheet_image_enabled", "sheetImageEnabled", "notnone", "strlower">>,
       <<"derived_permissions_enabled", "derivedPermissionsEnabled", "notnone", "strlower">>,
       <<"user_visibility_mode", "userVisibilityMode", "notnone", "str">>,
       <<"use_default_time_zone", "useDefaultTimeZone", "notnone", "strlower">>,
       <<"time_zone", "timeZone", "notnone", "str">>,
       <<"auto_suspend_refresh_enabled", "autoSuspendRefreshEnabled", "notnone", "strlower">>,
       <<"auto_suspend_refresh_inactivity_window", "autoSuspendRefreshInactivityWindow", "notnone", "str">> >>

SiteCreateRulesBeforeFlows ==
    << <<"name", "name", "always", "raw">>,
       <<"content_url", "contentUrl", "always", "raw">>,
       <<"admin_mode", "adminMode", "truthy", "raw">>,
       <<"user_quota", "userQuota", "truthy", "str">>,
       <<"storage_quota", "storageQuota", "truthy", "str">>,
       <<"disable_subscriptions", "disableSubscriptions", "notnone", "strlower">>,
       <<"subscribe_others_enabled", "subscribeOthersEnabled", "notnone", "strlower">>,
       <<"revision_limit", "revisionLimit", "truthy", "str">>,
       <<"data_acceleration_mode", "dataAccelerationMode", "notnone", "strlower">> >>

SiteCreateRulesAfterFlows ==
    << <<"allow_subscription_attachments", "allowSubscriptionAttachments", "notnone", "strlower">>,
       <<"guest_access_enabled", "guestAccessEnabled", "notnone", "strlower">>,
       <<"cache_warmup_enabled", "cacheWarmupEnabled", "notnone", "strlower">>,
       <<"commenting_enabled", "commentingEnabled", "notnone", "strlower">>,
       <<"revision_history_enabled", "revisionHistoryEnabled", "notnone", "strlower">>,
       <<"extract_encryption_mode", "extractEncryptionMode", "notnone", "strlower">>,
       <<"request_access_enabled", "requestAccessEnabled", "notnone", "strlower">>,
       <<"run_now_enabled", "runNowEnabled", "notnone", "strlower">>,
       <<"tier_creator_capacity", "tierCreatorCapacity", "notnone", "strlower">>,
       <<"tier_explorer_capacity", "tierExplorerCapacity", "notnone", "strlower">>,
       <<"tier_viewer_capacity", "tierViewerCapacity", "notnone", "strlower">>,
       <<"data_alerts_enabled", "dataAlertsEnabled", "notnone", "strlower">>,
       <<"commenting_mentions_enabled", "commentingMentionsEnabled", "notnone", "strlower">>,
       <<"catalog_obfuscation_enabled", "catalogObfuscationEnabled", "notnone", "strlower">>,
       <<"flow_auto_save_enabled", "flowAutoSaveEnabled", "notnone", "strlower">>,
       <<"web_extraction_enabled", "webExtractionEnabled", "notnone", "strlower">>,
       <<"metrics_content_type_enabled", "metricsContentTypeEnabled", "notnone", "strlower">>,
       <<"notify_site_admins_on_throttle", "notifySiteAdminsOnThrottle", "notnone", "strlower">>,
       <<"authoring_enabled", "authoringEnabled", "notnone", "strlower">>,
       <<"custom_subscription_email_enabled", "customSubscriptionEmailEnabled", "notnone", "strlower">>,
       <<"custom_subscription_email", "customSubscriptionEmail", "notnone", "strlower">>,
       <<"custom_subscription_footer_enabled", "customSubscriptionFooterEnabled", "notnone", "strlower">>,
       <<"custom_subscription_footer", "customSubscriptionFooter", "notnone", "strlower">>,
       <<"ask_data_mode", "askDataMode", "notnone", "str">>,
       <<"named_sharing_enabled", "namedSharingEnabled", "notnone", "strlower">>,
       <<"mobile_biometrics_enabled", "mobileBiometricsEnabled", "notnone", "strlower">>,
       <<"sheet_image_enabled", "sheetImageEnabled", "notnone", "strlower">>,
       <<"cataloging_enabled", "catalogingEnabled", "notnone", "strlower">>,
       <<"derived_permissions_enabled", "derivedPermissionsEnabled", "notnone", "strlower">>,
       <<"user_visibility_mode", "userVisibilityMode", "notnone", "str">>,
       <<"use_default_time_zone", "useDefaultTimeZone", "notnone", "strlower">>,
       <<"time_zone", "timeZone", "notnone", "str">>,
       <<"auto_suspend_refresh_enabled", "autoSuspendRefreshEnabled", "notnone", "strlower">>,
       <<"auto_suspend_refresh_inactivity_window", "autoSuspendRefreshInactivityWindow", "notnone", "str">> >>

\* the body shared by create_req and update_req: the statements before the
\* flow attributes, set_versioned_flow_attributes, the statements after it
SiteRequestBody(site_item, parent_srv, before, after) ==
    LET xml_request == Element("tsRequest")
        site_element == ApplyRules(Element("site"), site_item, before)
        flows_edit == Lower(Str(site_item.editing_flows_enabled))
        flows_schedule == Lower(Str(site_item.scheduling_flows_enabled))
        flows_all == Lower(Str(site_item.flows_enabled))
        v == set_versioned_flow_attributes(flows_all, flows_edit, flows_schedule,
                                           parent_srv, site_element, site_item)
    IN  IF v.err # NoError
        THEN Failed(v.err, AppendChild(xml_request, v.el), v.warnings)
        ELSE Returned(AppendChild(xml_request, ApplyRules(v.el, site_item, after)),
                      v.warnings)

SiteRequest_update_req(site_item, parent_srv) ==
    SiteRequestBody(site_item, parent_srv, SiteUpdateRulesBeforeFlows, SiteUpdateRulesAfterFlows)

SiteRequest_create_req(site_item, parent_srv) ==
    SiteRequestBody(site_item, parent_srv, SiteCreateRulesBeforeFlows, SiteCreateRulesAfterFlows)

-----------------------------------------------------------------------------
(* shared helpers: multipart bodies, connections, credentials, hidden views *)

\* str.partition(sep) on a string held as a sequence of tokens
Partition(str, sep) ==
    IF \E i \in 1..Len(str) : str[i] = sep
    THEN LET i == CHOOSE j \in 1..Len(str) :
                    str[j] = sep /\ \A k \in 1..(j - 1) : str[k] # sep
         IN  <<SubSeq(str, 1, i - 1), <<sep>>, SubSeq(str, i + 1, Len(str))>>
    ELSE <<str, <<>>, <<>>>>

\* RequestField(name=name, data=data, filename=filename) followed by
\* make_multipart(content_type=content_type): the part with its two headers
RequestField(name, data, filename, content_type) ==
    [disposition |-> "form-data", name |-> name, filename |-> filename,
     content_type |-> content_type, data |-> data]

\* urllib3's encode_multipart_formdata(fields) with the boundary it generated:
\* every field framed by the boundary, and the content type naming it
encode_multipart_formdata(fields, boundary) ==
    [body |-> [parts |-> [i \in 1..Len(fields) |->
                            [delimiter |-> "--" \o boundary, field |-> fields[i]]],
               closing |-> "--" \o boundary \o "--"],
     content_type |-> <<"multipart/form-data", ";", " boundary=" \o boundary>>]

\* a faulty variant: the content type of the encoder is returned as it is
add_multipart_form_data(parts, boundary) ==
    LET mime_multipart_parts ==
            [i \in 1..Len(parts) |->
                RequestField(parts[i][1], parts[i][2][2], parts[i][2][1], parts[i][2][3])]
        encoded == encode_multipart_formdata(mime_multipart_parts, boundary)
    IN  [xml_request |-> encoded.body, content_type |-> encoded.content_type]

\* a faulty variant: the parameters of the encoder's content type are dropped
add_multipart_without_parameters(parts, boundary) ==
    LET mime_multipart_parts ==
            [i \in 1..Len(parts) |->
                RequestField(parts[i][1], parts[i][2][2], parts[i][2][1], parts[i][2][3])]
        encoded == encode_multipart_formdata(mime_multipart_parts, boundary)
    IN  [xml_request |-> encoded.body, content_type |-> <<"multipart/mixed">>]

\* parts is the dict, in insertion order: <<name, <<filename, data, content_type>>>>
add_multipart(parts, boundary) ==
    LET mime_multipart_parts ==
            [i \in 1..Len(parts) |->
                RequestField(parts[i][1], parts[i][2][2], parts[i][2][1], parts[i][2][3])]
        encoded == encode_multipart_formdata(mime_multipart_parts, boundary)
        content_type == <<"multipart/mixed">>
                        \o Partition(encoded.content_type, ";")[2]
                        \o Partition(encoded.content_type, ";")[3]
    IN  [xml_request |-> encoded.body, content_type |-> content_type]

\* return _add_multipart(parts), after _generate_xml returned generated
ReturnedMultipart(generated, parts, boundary) ==
    LET m == add_multipart(parts, boundary)
    IN  [generated EXCEPT !.returned = "multipart",
                          !.body = m.xml_request,
                          !.content_type = m.content_type]

\* the end of a publish builder: the exception of _generate_xml propagates;
\* else parts = {"request_payload": ("", xml_request, "text/xml"), ...} with
\* the builder's further parts, and return _add_multipart(parts)
PublishParts(xml_request, further_parts, boundary) ==
    IF xml_request.err # NoError THEN xml_request
    ELSE ReturnedMultipart(xml_request,
            << <<"request_payload", <<"", xml_request.payload, "text/xml">> >> >>
            \o further_parts, boundary)

ErrCredentials == "ValueError: Connection Credentials must have a name and password"

ErrNoServerAddress == "ValueError: Connection must have a server address"

\* the message, without its backquotes
ErrConflict == "RuntimeError: You cannot set both connections and connection_credentials"

\* a faulty variant: only the password is required
add_credentials_element_password_only(parent_element, connection_credentials) ==
    LET credentials_element == Element("connectionCredentials")
        c1 == SetAttrib(credentials_element, "name", connection_credentials.name)
        c2 == SetAttrib(c1, "password", connection_credentials.password)
        c3 == SetAttrib(c2, "embed",
                        PyStr(IF Truthy(connection_credentials.embed) THEN "true" ELSE "false"))
        c4 == IF Truthy(connection_credentials.oauth)
              THEN SetAttrib(c3, "oAuth", PyStr("true"))
              ELSE c3
    IN  IF ~Truthy(connection_credentials.password)
        THEN Raise(ErrCredentials, AppendChild(parent_element, credentials_element))
        ELSE Ok(AppendChild(parent_element, c4))

add_credentials_element(parent_element, connection_credentials) ==
    LET credentials_element == Element("connectionCredentials")
        c1 == SetAttrib(credentials_element, "name", connection_credentials.name)
        c2 == SetAttrib(c1, "password", connection_credentials.password)
        c3 == SetAttrib(c2, "embed",
                        PyStr(IF Truthy(connection_credentials.embed) THEN "true" ELSE "false"))
        c4 == IF Truthy(connection_credentials.oauth)
              THEN SetAttrib(c3, "oAuth", PyStr("true"))
              ELSE c3
    IN  IF ~Truthy(connection_credentials.password) \/ ~Truthy(connection_credentials.name)
        THEN Raise(ErrCredentials, AppendChild(parent_element, credentials_element))
        ELSE Ok(AppendChild(parent_element, c4))

\* a faulty variant: the embedded credentials are rendered before the server
\* address is looked at
add_connections_element_credentials_first(connections_element, connection) ==
    LET connection_element == Element("connection")
        cred == add_credentials_element(connection_element, connection.connection_credentials)
        base == IF Truthy(connection.connection_credentials) THEN cred.el ELSE connection_element
        c1 == SetAttrib(base, "serverAddress", connection.server_address)
        c2 == IF Truthy(connection.server_port)
              THEN SetAttrib(c1, "serverPort", connection.server_port)
              ELSE c1
    IN  IF Truthy(connection.connection_credentials) /\ cred.err # NoError
        THEN [err |-> cred.err, el |-> AppendChild(connections_element, cred.el)]
        ELSE IF ~Truthy(connection.server_address)
        THEN Raise(ErrNoServerAddress, AppendChild(connections_element, base))
        ELSE Ok(AppendChild(connections_element, c2))

add_connections_element(connections_element, connection) ==
    LET connection_element == Element("connection")
        c1 == SetAttrib(connection_element, "serverAddress", connection.server_address)
        c2 == IF Truthy(connection.server_port)
              THEN SetAttrib(c1, "serverPort", connection.server_port)
              ELSE c1
    IN  IF ~Truthy(connection.server_address)
        THEN Raise(ErrNoServerAddress, AppendChild(connections_element, connection_element))
        ELSE IF Truthy(connection.connection_credentials)
        THEN Attached(connections_element,
                      add_credentials_element(c2, connection.connection_credentials))
        ELSE Ok(AppendChild(connections_element, c2))

RECURSIVE AddConnections(_, _, _)
\* for connection in connections: _add_connections_element(connections_element, connection)
AddConnections(connections_element, connections, i) ==
    IF i > Len(connections) THEN Ok(connections_element)
    ELSE LET step == add_connections_element(connections_element, connections[i])
         IN  IF step.err # NoError THEN step
             ELSE AddConnections(step.el, connections, i + 1)

add_hiddenview_element(views_element, view_name) ==
    AppendChild(views_element,
                SetAttrib(SetAttrib(Element("view"), "name", view_name),
                          "hidden", PyStr("true")))

RECURSIVE AddHiddenViews(_, _, _)
\* for view_name in hidden_views: _add_hiddenview_element(views_element, view_name)
AddHiddenViews(views_element, hidden_views, i) ==
    IF i > Len(hidden_views) THEN views_element
    ELSE AddHiddenViews(add_hiddenview_element(views_element, hidden_views[i]),
                        hidden_views, i + 1)

\* a faulty variant: the credentials are validated before the conflict check
AddCredentialsAndConnections_credentials_first(entity_element, connection_credentials, connections) ==
    IF ~IsNone(connection_credentials)
       /\ (~Truthy(connection_credentials.password) \/ ~Truthy(connection_credentials.name))
    THEN add_credentials_element(entity_element, connection_credentials)
    ELSE IF ~IsNone(connection_credentials) /\ ~IsNone(connections)
    THEN Raise(ErrConflict, entity_element)
    ELSE IF ~IsNone(connection_credentials)
    THEN add_credentials_element(entity_element, connection_credentials)
    ELSE IF ~IsNone(connections)
    THEN Attached(entity_element,
                  AddConnections(Element("connections"), connections.items, 1))
    ELSE Ok(entity_element)

\* a faulty variant: without the conflict check, the credentials win
AddCredentialsAndConnections_unchecked(entity_element, connection_credentials, connections) ==
    IF ~IsNone(connection_credentials)
    THEN add_credentials_element(entity_element, connection_credentials)
    ELSE IF ~IsNone(connections)
    THEN Attached(entity_element,
                  AddConnections(Element("connections"), connections.items, 1))
    ELSE Ok(entity_element)

\* the statements shared by the publish builders, on the entity's element:
\* the conflict check, the credentials, the connection list
AddCredentialsAndConnections(entity_element, connection_credentials, connections) ==
    IF ~IsNone(connection_credentials) /\ ~IsNone(connections)
    THEN Raise(ErrConflict, entity_element)
    ELSE IF ~IsNone(connection_credentials)
    THEN add_credentials_element(entity_element, connection_credentials)
    ELSE IF ~IsNone(connections)
    THEN Attached(entity_element,
                  AddConnections(Element("connections"), connections.items, 1))
    ELSE Ok(entity_element)

-----------------------------------------------------------------------------
(* DatasourceRequest *)

DatasourceRequest_generate_xml(datasource_item, connection_credentials, connections) ==
    LET xml_request == Element("tsRequest")
        d1 == ApplyRules(Element("datasource"), datasource_item,
                << <<"name", "name", "always", "raw">>,
                   <<"description", "description", "truthy", "str">>,
                   <<"use_remote_query_agent", "useRemoteQueryAgent", "notnone", "strlower">> >>)
        d2 == IF Truthy(datasource_item.ask_data_enablement)
              THEN AppendChild(d1, SetAttrib(Element("askData"), "enablement",
                                             datasource_item.ask_data_enablement))
              ELSE d1
        d3 == AppendChild(d2, SetAttrib(Element("project"), "id", datasource_item.project_id))
    IN  ReturnedAfter(xml_request,
            AddCredentialsAndConnections(d3, connection_credentials, connections))

DatasourceRequest_publish_req(datasource_item, filename, file_contents, connection_credentials, connections, boundary) ==
    PublishParts(
        DatasourceRequest_generate_xml(datasource_item, connection_credentials, connections),
        << <<"tableau_datasource", <<filename, file_contents, "application/octet-stream">> >> >>,
        boundary)

\* a faulty variant: the connection list is not passed on to _generate_xml
DatasourceRequest_publish_req_chunked_no_connections(datasource_item, connection_credentials, connections, boundary) ==
    PublishParts(
        DatasourceRequest_generate_xml(datasource_item, connection_credentials, None),
        <<>>, boundary)

DatasourceRequest_publish_req_chunked(datasource_item, connection_credentials, connections, boundary) ==
    PublishParts(
        DatasourceRequest_generate_xml(datasource_item, connection_credentials, connections),
        <<>>, boundary)

-----------------------------------------------------------------------------
(* FileuploadRequest *)

FileuploadRequest_chunk_req(chunk, boundary) ==
    LET parts == << <<"request_payload", <<"", <<>>, "text/xml">> >>,
                    <<"tableau_file", <<"file", chunk, "application/octet-stream">> >> >>
    IN  ReturnedMultipart(NoResult, parts, boundary)

-----------------------------------------------------------------------------
(* FlowRequest *)

FlowRequest_generate_xml(flow_item, connections) ==
    LET xml_request == Element("tsRequest")
        f1 == ApplyRules(Element("flow"), flow_item,
                << <<"name", "name", "notnone", "raw">> >>)
        f2 == AppendChild(f1, SetAttrib(Element("project"), "id", flow_item.project_id))
    IN  ReturnedAfter(xml_request,
            IF IsNone(connections)
            THEN Ok(f2)
            ELSE Attached(f2, AddConnections(Element("connections"), connections.items, 1)))

FlowRequest_publish_req(flow_item, filename, file_contents, connections, boundary) ==
    PublishParts(
        FlowRequest_generate_xml(flow_item, connections),
        << <<"tableau_flow", <<filename, file_contents, "application/octet-stream">> >> >>,
        boundary)

FlowRequest_publish_req_chunked(flow_item, connections, boundary) ==
    PublishParts(FlowRequest_generate_xml(flow_item, connections), <<>>, boundary)

-----------------------------------------------------------------------------
(* WorkbookRequest *)

WarnHiddenViews ==
    "DeprecationWarning: the hidden_views parameter should now be set on the workbook directly"

ErrDeprecationWarning == "DeprecationWarning"

\* the hidden views step without warnings.simplefilter: the filters in force
\* decide what happens to the warning
WorkbookRequest_hidden_views_no_simplefilter(xml_request, step, item, hidden_views) ==
    LET deprecated == ~IsNone(hidden_views)
        fs == filters
        outcome == WarnOutcome(fs, "DeprecationWarning")
        warnings == IF deprecated /\ outcome = "show" THEN <<WarnHiddenViews>> ELSE <<>>
        written == IF deprecated /\ IsNone(item.hidden_views)
                   THEN [item EXCEPT !.hidden_views = hidden_views]
                   ELSE item
        w3 == IF ~IsNone(written.hidden_views)
              THEN AppendChild(step.el,
                               AddHiddenViews(Element("views"), written.hidden_views.items, 1))
              ELSE step.el
    IN  IF step.err # NoError
        THEN [res |-> Failed(step.err, AppendChild(xml_request, step.el), <<>>),
              filters |-> filters, workbook_item |-> item]
        ELSE IF deprecated /\ outcome = "raise"
        THEN [res |-> Failed(ErrDeprecationWarning, AppendChild(xml_request, step.el), <<>>),
              filters |-> fs, workbook_item |-> item]
        ELSE [res |-> Returned(AppendChild(xml_request, w3), warnings),
              filters |-> fs, workbook_item |-> written]

\* the hidden views step writing workbook_item.hidden_views = hidden_views or []
\* whether or not the parameter is given
WorkbookRequest_hidden_views_defaulted(xml_request, step, item, hidden_views) ==
    LET deprecated == ~IsNone(hidden_views)
        fs == IF deprecated
              THEN simplefilter(filters, "always", "DeprecationWarning")
              ELSE filters
        outcome == WarnOutcome(fs, "DeprecationWarning")
        warnings == IF deprecated /\ outcome = "show" THEN <<WarnHiddenViews>> ELSE <<>>
        written == IF IsNone(item.hidden_views)
                   THEN [item EXCEPT !.hidden_views = PyOr(hidden_views, PyList(<<>>))]
                   ELSE item
        w3 == IF ~IsNone(written.hidden_views)
              THEN AppendChild(step.el,
                               AddHiddenViews(Element("views"), written.hidden_views.items, 1))
              ELSE step.el
    IN  IF step.err # NoError
        THEN [res |-> Failed(step.err, AppendChild(xml_request, step.el), <<>>),
              filters |-> filters, workbook_item |-> item]
        ELSE IF deprecated /\ outcome = "raise"
        THEN [res |-> Failed(ErrDeprecationWarning, AppendChild(xml_request, step.el), <<>>),
              filters |-> fs, workbook_item |-> item]
        ELSE [res |-> Returned(AppendChild(xml_request, w3), warnings),
              filters |-> fs, workbook_item |-> written]

\* the hidden views step rendering the views the item had on entry, and
\* writing the parameter into the item afterwards
WorkbookRequest_hidden_views_written_after(xml_request, step, item, hidden_views) ==
    LET deprecated == ~IsNone(hidden_views)
        fs == IF deprecated
              THEN simplefilter(filters, "always", "DeprecationWarning")
              ELSE filters
        outcome == WarnOutcome(fs, "DeprecationWarning")
        warnings == IF deprecated /\ outcome = "show" THEN <<WarnHiddenViews>> ELSE <<>>
        written == IF deprecated /\ IsNone(item.hidden_views)
                   THEN [item EXCEPT !.hidden_views = hidden_views]
                   ELSE item
        w3 == IF ~IsNone(item.hidden_views)
              THEN AppendChild(step.el,
                               AddHiddenViews(Element("views"), item.hidden_views.items, 1))
              ELSE step.el
    IN  IF step.err # NoError
        THEN [res |-> Failed(step.err, AppendChild(xml_request, step.el), <<>>),
              filters |-> filters, workbook_item |-> item]
        ELSE IF deprecated /\ outcome = "raise"
        THEN [res |-> Failed(ErrDeprecationWarning, AppendChild(xml_request, step.el), <<>>),
              filters |-> fs, workbook_item |-> item]
        ELSE [res |-> Returned(AppendChild(xml_request, w3), warnings),
              filters |-> fs, workbook_item |-> written]

\* the hidden views of _generate_xml, after the step that rendered credentials
\* and connections.  It writes the warnings filter list and the workbook item,
\* and yields the result, the filter list and the item it leaves behind
WorkbookRequest_hidden_views(xml_request, step, item, hidden_views) ==
    LET deprecated == ~IsNone(hidden_views)
        fs == IF deprecated
              THEN simplefilter(filters, "always", "DeprecationWarning")
              ELSE filters
        outcome == WarnOutcome(fs, "DeprecationWarning")
        warnings == IF deprecated /\ outcome = "show" THEN <<WarnHiddenViews>> ELSE <<>>
        written == IF deprecated /\ IsNone(item.hidden_views)
                   THEN [item EXCEPT !.hidden_views = hidden_views]
                   ELSE item
        w3 == IF ~IsNone(written.hidden_views)
              THEN AppendChild(step.el,
                               AddHiddenViews(Element("views"), written.hidden_views.items, 1))
              ELSE step.el
    IN  IF step.err # NoError
        THEN [res |-> Failed(step.err, AppendChild(xml_request, step.el), <<>>),
              filters |-> filters, workbook_item |-> item]
        ELSE IF deprecated /\ outcome = "raise"
        THEN [res |-> Failed(ErrDeprecationWarning, AppendChild(xml_request, step.el), <<>>),
              filters |-> fs, workbook_item |-> item]
        ELSE [res |-> Returned(AppendChild(xml_request, w3), warnings),
              filters |-> fs, workbook_item |-> written]

\* _generate_xml yields the result, the filter list and the item it leaves behind
WorkbookRequest_generate_xml(item, connection_credentials, connections, hidden_views) ==
    LET xml_request == Element("tsRequest")
        w1 == ApplyRules(Element("workbook"), item,
                << <<"name", "name", "always", "raw">>,
                   <<"show_tabs", "showTabs", "truthy", "strlower">> >>)
        w2 == AppendChild(w1, SetAttrib(Element("project"), "id", Str(item.project_id)))
    IN  WorkbookRequest_hidden_views(xml_request,
            AddCredentialsAndConnections(w2, connection_credentials, connections),
            item, hidden_views)

WorkbookRequest_publish_req(item, filename, file_contents, connection_credentials, connections, hidden_views, boundary) ==
    [WorkbookRequest_generate_xml(item, connection_credentials, connections, hidden_views)
        EXCEPT !.res = PublishParts(@,
            << <<"tableau_workbook", <<filename, file_contents, "application/octet-stream">> >> >>,
            boundary)]

WorkbookRequest_publish_req_chunked(item, connection_credentials, connections, hidden_views, boundary) ==
    [WorkbookRequest_generate_xml(item, connection_credentials, connections, hidden_views)
        EXCEPT !.res = PublishParts(@, <<>>, boundary)]

-----------------------------------------------------------------------------
(* GroupRequest *)

ErrGroupName == "ValueError: Group name must be populated"

ErrGroupDomain == "ValueError: Group Domain undefined."

ErrMinimumSiteRole == "ValueError: Minimum site role must be provided."

WarnDefaultSiteRole ==
    "DeprecationWarning: RequestFactory.Group.update_req(...default_site_role=\"\") is deprecated, please set the minimum_site_role field of GroupItem"

GroupRequest_create_local_req(item) ==
    LET xml_request == Element("tsRequest")
        group_element == Element("group")
        g1 == SetAttrib(group_element, "name", item.name)
        g2 == ApplyRules(g1, item,
                << <<"minimum_site_role", "minimumSiteRole", "notnone", "raw">> >>)
    IN  IF IsNone(item.name)
        THEN Failed(ErrGroupName, AppendChild(xml_request, group_element), <<>>)
        ELSE Returned(AppendChild(xml_request, g2), <<>>)

\* a faulty variant: the domain is validated before the name
GroupRequest_create_ad_req_domain_first(item) ==
    LET xml_request == Element("tsRequest")
        group_element == Element("group")
        g1 == SetAttrib(group_element, "name", item.name)
        import_element == SetAttrib(Element("import"), "source", PyStr("ActiveDirectory"))
        i1 == ApplyRules(import_element, item,
                << <<"domain_name", "domainName", "always", "raw">>,
                   <<"license_mode", "grantLicenseMode", "notnone", "raw">>,
                   <<"minimum_site_role", "siteRole", "notnone", "raw">> >>)
    IN  IF IsNone(item.domain_name)
        THEN Failed(ErrGroupDomain, AppendChild(xml_request, group_element), <<>>)
        ELSE IF IsNone(item.name)
        THEN Failed(ErrGroupName, AppendChild(xml_request, group_element), <<>>)
        ELSE Returned(AppendChild(xml_request, AppendChild(g1, i1)), <<>>)

GroupRequest_create_ad_req(item) ==
    LET xml_request == Element("tsRequest")
        group_element == Element("group")
        g1 == SetAttrib(group_element, "name", item.name)
        import_element == SetAttrib(Element("import"), "source", PyStr("ActiveDirectory"))
        i1 == ApplyRules(import_element, item,
                << <<"domain_name", "domainName", "always", "raw">>,
                   <<"license_mode", "grantLicenseMode", "notnone", "raw">>,
                   <<"minimum_site_role", "siteRole", "notnone", "raw">> >>)
    IN  IF IsNone(item.name)
        THEN Failed(ErrGroupName, AppendChild(xml_request, group_element), <<>>)
        ELSE IF IsNone(item.domain_name)
        THEN Failed(ErrGroupDomain,
                    AppendChild(xml_request, AppendChild(g1, import_element)), <<>>)
        ELSE Returned(AppendChild(xml_request, AppendChild(g1, i1)), <<>>)

\* update_req rendering minimumSiteRole on the group element of a directory
\* group too
GroupRequest_update_req_role_on_group(item, default_site_role) ==
    LET deprecated == ~IsNone(default_site_role)
        fs == IF deprecated
              THEN simplefilter(filters, "always", "DeprecationWarning")
              ELSE filters
        outcome == WarnOutcome(fs, "DeprecationWarning")
        warnings == IF deprecated /\ outcome = "show" THEN <<WarnDefaultSiteRole>> ELSE <<>>
        written == IF deprecated
                   THEN [item EXCEPT !.minimum_site_role = default_site_role]
                   ELSE item
        xml_request == Element("tsRequest")
        group_element == Element("group")
        g1 == SetAttrib(group_element, "name", written.name)
        import_element ==
            SetAttrib(SetAttrib(Element("import"), "source", PyStr("ActiveDirectory")),
                      "domainName", written.domain_name)
        i1 == SetAttrib(import_element, "siteRole", written.minimum_site_role)
        i2 == ApplyRules(i1, written,
                << <<"license_mode", "grantLicenseMode", "notnone", "raw">> >>)
        g2 == ApplyRules(g1, written,
                << <<"minimum_site_role", "minimumSiteRole", "notnone", "raw">> >>)
        res ==
            IF IsNone(written.name)
            THEN Failed(ErrGroupName, AppendChild(xml_request, group_element), warnings)
            ELSE IF ~IsNone(written.domain_name) /\ written.domain_name # PyStr("local")
            THEN IF IsStr(written.minimum_site_role)
                 THEN Returned(AppendChild(xml_request, AppendChild(g2, i2)), warnings)
                 ELSE Failed(ErrMinimumSiteRole,
                             AppendChild(xml_request, AppendChild(g1, import_element)),
                             warnings)
            ELSE Returned(AppendChild(xml_request, g2), warnings)
    IN  IF deprecated /\ outcome = "raise"
        THEN [res |-> Failed(ErrDeprecationWarning, Element("none"), <<>>),
              filters |-> fs, group_item |-> item]
        ELSE [res |-> res, filters |-> fs, group_item |-> written]

\* update_req rendering default_site_role without writing it into the item
GroupRequest_update_req_not_written(item, default_site_role) ==
    LET deprecated == ~IsNone(default_site_role)
        fs == IF deprecated
              THEN simplefilter(filters, "always", "DeprecationWarning")
              ELSE filters
        outcome == WarnOutcome(fs, "DeprecationWarning")
        warnings == IF deprecated /\ outcome = "show" THEN <<WarnDefaultSiteRole>> ELSE <<>>
        written == IF deprecated
                   THEN [item EXCEPT !.minimum_site_role = default_site_role]
                   ELSE item
        xml_request == Element("tsRequest")
        group_element == Element("group")
        g1 == SetAttrib(group_element, "name", written.name)
        import_element ==
            SetAttrib(SetAttrib(Element("import"), "source", PyStr("ActiveDirectory")),
                      "domainName", written.domain_name)
        i1 == SetAttrib(import_element, "siteRole", written.minimum_site_role)
        i2 == ApplyRules(i1, written,
                << <<"license_mode", "grantLicenseMode", "notnone", "raw">> >>)
        g2 == ApplyRules(g1, written,
                << <<"minimum_site_role", "minimumSiteRole", "notnone", "raw">> >>)
        res ==
            IF IsNone(written.name)
            THEN Failed(ErrGroupName, AppendChild(xml_request, group_element), warnings)
            ELSE IF ~IsNone(written.domain_name) /\ written.domain_name # PyStr("local")
            THEN IF IsStr(written.minimum_site_role)
                 THEN Returned(AppendChild(xml_request, AppendChild(g1, i2)), warnings)
                 ELSE Failed(ErrMinimumSiteRole,
                             AppendChild(xml_request, AppendChild(g1, import_element)),
                             warnings)
            ELSE Returned(AppendChild(xml_request, g2), warnings)
    IN  IF deprecated /\ outcome = "raise"
        THEN [res |-> Failed(ErrDeprecationWarning, Element("none"), <<>>),
              filters |-> fs, group_item |-> item]
        ELSE [res |-> res, filters |-> fs, group_item |-> item]

\* update_req writes the warnings filter list and the group item: it yields
\* the result, the filter list and the item it leaves behind
GroupRequest_update_req(item, default_site_role) ==
    LET deprecated == ~IsNone(default_site_role)
        fs == IF deprecated
              THEN simplefilter(filters, "always", "DeprecationWarning")
              ELSE filters
        outcome == WarnOutcome(fs, "DeprecationWarning")
        warnings == IF deprecated /\ outcome = "show" THEN <<WarnDefaultSiteRole>> ELSE <<>>
        written == IF deprecated
                   THEN [item EXCEPT !.minimum_site_role = default_site_role]
                   ELSE item
        xml_request == Element("tsRequest")
        group_element == Element("group")
        g1 == SetAttrib(group_element, "name", written.name)
        import_element ==
            SetAttrib(SetAttrib(Element("import"), "source", PyStr("ActiveDirectory")),
                      "domainName", written.domain_name)
        i1 == SetAttrib(import_element, "siteRole", written.minimum_site_role)
        i2 == ApplyRules(i1, written,
                << <<"license_mode", "grantLicenseMode", "notnone", "raw">> >>)
        g2 == ApplyRules(g1, written,
                << <<"minimum_site_role", "minimumSiteRole", "notnone", "raw">> >>)
        res ==
            IF IsNone(written.name)
            THEN Failed(ErrGroupName, AppendChild(xml_request, group_element), warnings)
            ELSE IF ~IsNone(written.domain_name) /\ written.domain_name # PyStr("local")
            THEN IF IsStr(written.minimum_site_role)
                 THEN Returned(AppendChild(xml_request, AppendChild(g1, i2)), warnings)
                 ELSE Failed(ErrMinimumSiteRole,
                             AppendChild(xml_request, AppendChild(g1, import_element)),
                             warnings)
            ELSE Returned(AppendChild(xml_request, g2), warnings)
    IN  IF deprecated /\ outcome = "raise"
        THEN [res |-> Failed(ErrDeprecationWarning, Element("none"), <<>>),
              filters |-> fs, group_item |-> item]
        ELSE [res |-> res, filters |-> fs, group_item |-> written]

-----------------------------------------------------------------------------
(* UserRequest *)

ErrUserName == "ValueError: user_item missing name."

ErrUserSiteRole == "ValueError: user_item must have site role populated."

\* a faulty variant: the role of a server administrator is rendered too
UserRequest_update_req_any_role(user_item, password) ==
    LET xml_request == Element("tsRequest")
        u1 == ApplyRules(Element("user"), user_item,
                << <<"fullname", "fullName", "truthy", "raw">>,
                   <<"email", "email", "truthy", "raw">> >>)
        u2 == IF Truthy(user_item.site_role)
              THEN SetAttrib(u1, "siteRole", user_item.site_role)
              ELSE u1
        u3 == ApplyRules(u2, user_item,
                << <<"auth_setting", "authSetting", "truthy", "raw">> >>)
        u4 == IF Truthy(password) THEN SetAttrib(u3, "password", password) ELSE u3
    IN  Returned(AppendChild(xml_request, u4), <<>>)

UserRequest_update_req(user_item, password) ==
    LET xml_request == Element("tsRequest")
        u1 == ApplyRules(Element("user"), user_item,
                << <<"fullname", "fullName", "truthy", "raw">>,
                   <<"email", "email", "truthy", "raw">> >>)
        u2 == IF Truthy(user_item.site_role)
                 /\ user_item.site_role # PyStr("ServerAdministrator")
              THEN SetAttrib(u1, "siteRole", user_item.site_role)
              ELSE u1
        u3 == ApplyRules(u2, user_item,
                << <<"auth_setting", "authSetting", "truthy", "raw">> >>)
        u4 == IF Truthy(password) THEN SetAttrib(u3, "password", password) ELSE u3
    IN  Returned(AppendChild(xml_request, u4), <<>>)

\* a faulty variant: the name is not validated
UserRequest_add_req_unchecked_name(user_item) ==
    LET xml_request == Element("tsRequest")
        user_element == Element("user")
        u1 == SetAttrib(user_element, "name", user_item.name)
        u2 == SetAttrib(u1, "siteRole", user_item.site_role)
        u3 == ApplyRules(u2, user_item,
                << <<"auth_setting", "authSetting", "truthy", "raw">> >>)
    IN  IF ~IsStr(user_item.site_role)
        THEN Failed(ErrUserSiteRole, AppendChild(xml_request, u1), <<>>)
        ELSE Returned(AppendChild(xml_request, u3), <<>>)

UserRequest_add_req(user_item) ==
    LET xml_request == Element("tsRequest")
        user_element == Element("user")
        u1 == SetAttrib(user_element, "name", user_item.name)
        u2 == SetAttrib(u1, "siteRole", user_item.site_role)
        u3 == ApplyRules(u2, user_item,
                << <<"auth_setting", "authSetting", "truthy", "raw">> >>)
    IN  IF ~IsStr(user_item.name)
        THEN Failed(ErrUserName, AppendChild(xml_request, user_element), <<>>)
        ELSE IF ~IsStr(user_item.site_role)
        THEN Failed(ErrUserSiteRole, AppendChild(xml_request, u1), <<>>)
        ELSE Returned(AppendChild(xml_request, u3), <<>>)

-----------------------------------------------------------------------------
(* the callers' inputs *)

\* the warnings filter list the process starts with: Python's default, or a
\* caller that has turned warnings into errors
InitialFilters == { <<>>, <<[action |-> "error", category |-> "Warning"]>> }

Flags == {None, PyBool(TRUE), PyBool(FALSE)}

SiteFields ==
    {"name", "content_url", "admin_mode", "user_quota", "state", "storage_quota",
     "disable_subscriptions", "subscribe_others_enabled", "revision_limit",
     "revision_history_enabled", "data_acceleration_mode", "cataloging_enabled",
     "flows_enabled", "editing_flows_enabled", "scheduling_flows_enabled",
     "allow_subscription_attachments", "guest_access_enabled", "cache_warmup_enabled",
     "commenting_enabled", "extract_encryption_mode", "request_access_enabled",
     "run_now_enabled", "tier_creator_capacity", "tier_explorer_capacity",
     "tier_viewer_capacity", "data_alerts_enabled", "commenting_mentions_enabled",
     "catalog_obfuscation_enabled", "flow_auto_save_enabled", "web_extraction_enabled",
     "metrics_content_type_enabled", "notify_site_admins_on_throttle",
     "authoring_enabled", "custom_subscription_email_enabled",
     "custom_subscription_email", "custom_subscription_footer_enabled",
     "custom_subscription_footer", "ask_data_mode", "named_sharing_enabled",
     "mobile_biometrics_enabled", "sheet_image_enabled", "derived_permissions_enabled",
     "user_visibility_mode", "use_default_time_zone", "time_zone",
     "auto_suspend_refresh_enabled", "auto_suspend_refresh_inactivity_window"}

\* site items: a named site whose flow flags and data-alerts flag vary, the
\* admin mode set or not, every other setting unset
SiteItems ==
    { [f \in SiteFields |->
          CASE f = "name" -> PyStr("Default")
            [] f = "content_url" -> PyStr("default")
            [] f = "admin_mode" -> mode
            [] f = "flows_enabled" -> all
            [] f = "editing_flows_enabled" -> edit
            [] f = "scheduling_flows_enabled" -> schedule
            [] f = "data_alerts_enabled" -> alerts
            [] OTHER -> None]
      : all \in Flags, edit \in Flags, schedule \in Flags, alerts \in Flags,
        mode \in {None, PyStr("ContentOnly")} }

\* parent_srv: no server context, or one that answers use_new_flow_settings
Servers ==
    {None} \cup {[type |-> "Server", new_flow_settings |-> b] : b \in BOOLEAN}

NoGroupItem ==
    [name |-> None, domain_name |-> None, minimum_site_role |-> None, license_mode |-> None]

NoWorkbookItem ==
    [name |-> None, show_tabs |-> PyBool(FALSE), project_id |-> None, hidden_views |-> None]

NoCall == [op |-> "none"]

\* the caller is done with the payload of its last call (or with its exception)
Discard ==
    /\ call # NoCall
    /\ call' = NoCall
    /\ result' = NoResult
    /\ UNCHANGED <<filters, group_item, workbook_item>>

-----------------------------------------------------------------------------
(* the callers' inputs to the publish builders *)

\* the longest connection list a caller passes
MaxConns == 2

Credentials(name, password, embed, oauth) ==
    [type |-> "ConnectionCredentials", name |-> name, password |-> password,
     embed |-> PyBool(embed), oauth |-> PyBool(oauth)]

\* credential descriptors: complete ones, and ones whose name or password is
\* None or empty
CredentialsItems ==
    { Credentials(PyStr("admin"), PyStr("secret"), TRUE, FALSE),
      Credentials(PyStr("admin"), PyStr("secret"), FALSE, TRUE),
      Credentials(None, PyStr("secret"), TRUE, FALSE),
      Credentials(PyStr("admin"), None, TRUE, FALSE),
      Credentials(PyStr("admin"), PyStr(""), FALSE, FALSE) }

Connection(server_address, server_port, connection_credentials) ==
    [type |-> "ConnectionItem", server_address |-> server_address,
     server_port |-> server_port, connection_credentials |-> connection_credentials]

\* connections: complete ones, ones without a server address (None or empty),
\* and ones whose embedded credentials lack a password
ConnectionItems ==
    { Connection(PyStr("db.example.com"), PyStr("5432"),
                 Credentials(PyStr("admin"), PyStr("secret"), TRUE, FALSE)),
      Connection(PyStr("db.example.com"), None, None),
      Connection(None, None, Credentials(PyStr("admin"), None, TRUE, FALSE)),
      Connection(PyStr(""), PyStr("5432"), None),
      Connection(PyStr("db.example.com"), None,
                 Credentials(PyStr("admin"), None, TRUE, FALSE)) }

ConnectionLists ==
    { PyList(s) : s \in UNION { [1..n -> ConnectionItems] : n \in 0..MaxConns } }

DatasourceItems ==
    { [name |-> name, description |-> None, use_remote_query_agent |-> None,
       ask_data_enablement |-> None, project_id |-> PyStr("p1")]
      : name \in {None, PyStr("ds")} }
    \cup
    { [name |-> name, description |-> PyStr("desc"),
       use_remote_query_agent |-> PyBool(FALSE),
       ask_data_enablement |-> PyStr("Enabled"), project_id |-> PyStr("p1")]
      : name \in {PyStr("ds"), PyStr("R&D")} }

FlowItems ==
    { [name |-> name, project_id |-> project_id]
      : name \in {None, PyStr("flow")}, project_id \in {None, PyStr("p1")} }

WorkbookItems ==
    { [name |-> PyStr("wb"), show_tabs |-> PyBool(show_tabs), project_id |-> project_id,
       hidden_views |-> hidden_views]
      : show_tabs \in BOOLEAN, project_id \in {None, PyStr("p1")},
        hidden_views \in {None, PyList(<<PyStr("Sheet1")>>)} }

HiddenViewsArgs == {None, PyList(<<>>), PyList(<<PyStr("Sheet2")>>)}

\* a file to publish: <<filename, file_contents>>
Files == { <<"sales.tdsx", <<"PK-sales">> >>, <<"", <<"PK-unnamed">> >> }

Chunks == { <<>>, <<"chunk-1">> }

\* the boundaries urllib3 may generate
Boundaries == {"4f2a", "9c1e"}

-----------------------------------------------------------------------------
(* the callers' inputs to the group and user builders *)

GroupItems ==
    { [name |-> name, domain_name |-> domain_name,
       minimum_site_role |-> minimum_site_role, license_mode |-> license_mode]
      : name \in {None, PyStr("Sales")},
        domain_name \in {None, PyStr("local"), PyStr("corp.example")},
        minimum_site_role \in {None, PyStr("Viewer"), PyStr("Explorer")},
        license_mode \in {None, PyStr("onLogin")} }

DefaultSiteRoles == {None, PyStr("Viewer"), PyStr("Unlicensed")}

UserItems ==
    { [name |-> name, site_role |-> site_role, fullname |-> fullname,
       email |-> email, auth_setting |-> auth_setting]
      : name \in {None, PyStr(""), PyStr("alice")},
        site_role \in {None, PyStr(""), PyStr("Viewer"), PyStr("ServerAdministrator")},
        fullname \in {None, PyStr("Alice A")},
        email \in {None, PyStr(""), PyStr("alice@example.com")},
        auth_setting \in {None, PyStr("SAML")} }

Passwords == {None, PyStr(""), PyStr("secret")}

-----------------------------------------------------------------------------
(* SpecSite: calls of RequestFactory.Site *)

InitSite ==
    /\ filters \in InitialFilters
    /\ group_item = NoGroupItem
    /\ workbook_item = NoWorkbookItem
    /\ call = NoCall
    /\ result = NoResult

SiteUpdateReq ==
    /\ call = NoCall
    /\ \E site_item \in SiteItems, parent_srv \in Servers :
           /\ call' = [op |-> "Site.update_req", site_item |-> site_item, parent_srv |-> parent_srv]
           /\ result' = SiteRequest_update_req(site_item, parent_srv)
           /\ UNCHANGED <<filters, group_item, workbook_item>>

SiteCreateReq ==
    /\ call = NoCall
    /\ \E site_item \in SiteItems, parent_srv \in Servers :
           /\ call' = [op |-> "Site.create_req", site_item |-> site_item, parent_srv |-> parent_srv]
           /\ result' = SiteRequest_create_req(site_item, parent_srv)
           /\ UNCHANGED <<filters, group_item, workbook_item>>

NextSite == SiteUpdateReq \/ SiteCreateReq \/ Discard

SpecSite == InitSite /\ [][NextSite]_vars

SiteCall == call.op \in {"Site.update_req", "Site.create_req"}

\* the site element of the tree the last call built
SiteElement == result.tree.children[1]

SplitScheme == IsNone(call.parent_srv) \/ call.parent_srv.new_flow_settings

LegacyScheme == ~IsNone(call.parent_srv) /\ ~call.parent_srv.new_flow_settings

\* C2: the site element of create_req and update_req never carries the legacy
\* attribute flowsEnabled together with editingFlowsEnabled or
\* schedulingFlowsEnabled, whatever the three flags and the server context.
C2_NeverBothSchemes ==
    SiteCall =>
        ~(/\ HasAttrib(SiteElement, "flowsEnabled")
          /\ \/ HasAttrib(SiteElement, "editingFlowsEnabled")
             \/ HasAttrib(SiteElement, "schedulingFlowsEnabled"))

\* a call with all three flags set that returned a payload with flowsEnabled
C2_Witness ==
    /\ SiteCall
    /\ result.err = NoError
    /\ result.payload # <<>>
    /\ ~IsNone(call.site_item.flows_enabled)
    /\ ~IsNone(call.site_item.editing_flows_enabled)
    /\ ~IsNone(call.site_item.scheduling_flows_enabled)
    /\ HasAttrib(SiteElement, "flowsEnabled")

\* C3: under the split scheme, with flows_enabled set and both split flags
\* unset, a call that returns carries editingFlowsEnabled and
\* schedulingFlowsEnabled, both the lowercase rendering of flows_enabled.
C3_SplitSynthesizedFromLegacy ==
    (/\ SiteCall
     /\ result.err = NoError
     /\ SplitScheme
     /\ ~IsNone(call.site_item.flows_enabled)
     /\ IsNone(call.site_item.editing_flows_enabled)
     /\ IsNone(call.site_item.scheduling_flows_enabled))
    => /\ HasAttrib(SiteElement, "editingFlowsEnabled")
       /\ HasAttrib(SiteElement, "schedulingFlowsEnabled")
       /\ GetAttrib(SiteElement, "editingFlowsEnabled")
            = PyStr(IF call.site_item.flows_enabled.b THEN "true" ELSE "false")
       /\ GetAttrib(SiteElement, "schedulingFlowsEnabled")
            = PyStr(IF call.site_item.flows_enabled.b THEN "true" ELSE "false")

\* C4: under the legacy scheme, with flows_enabled unset and at least one split
\* flag set, a call that returns carries flowsEnabled equal to "true" if either
\* split flag is True and to "false" otherwise.
C4_LegacySynthesizedAsOr ==
    (/\ SiteCall
     /\ result.err = NoError
     /\ LegacyScheme
     /\ IsNone(call.site_item.flows_enabled)
     /\ \/ ~IsNone(call.site_item.editing_flows_enabled)
        \/ ~IsNone(call.site_item.scheduling_flows_enabled))
    => /\ HasAttrib(SiteElement, "flowsEnabled")
       /\ GetAttrib(SiteElement, "flowsEnabled")
            = PyStr(IF \/ Truthy(call.site_item.editing_flows_enabled)
                       \/ Truthy(call.site_item.scheduling_flows_enabled)
                    THEN "true" ELSE "false")

-----------------------------------------------------------------------------
(* SpecPublish: calls of RequestFactory.Datasource, Flow, Fileupload and    *)
(* Workbook that build a multipart body                                     *)

InitPublish ==
    /\ filters = <<>>
    /\ group_item = NoGroupItem
    /\ workbook_item \in WorkbookItems
    /\ call = NoCall
    /\ result = NoResult

DatasourcePublishReq ==
    /\ call = NoCall
    /\ \E datasource_item \in DatasourceItems, file \in Files,
          connection_credentials \in {None} \cup CredentialsItems,
          connections \in {None} \cup ConnectionLists, boundary \in Boundaries :
           /\ call' = [op |-> "Datasource.publish_req", item |-> datasource_item,
                       filename |-> file[1], file_contents |-> file[2],
                       connection_credentials |-> connection_credentials,
                       connections |-> connections]
           /\ result' = DatasourceRequest_publish_req(datasource_item, file[1], file[2],
                           connection_credentials, connections, boundary)
           /\ UNCHANGED <<filters, group_item, workbook_item>>

DatasourcePublishReqChunked ==
    /\ call = NoCall
    /\ \E datasource_item \in DatasourceItems,
          connection_credentials \in {None} \cup CredentialsItems,
          connections \in {None} \cup ConnectionLists, boundary \in Boundaries :
           /\ call' = [op |-> "Datasource.publish_req_chunked", item |-> datasource_item,
                       connection_credentials |-> connection_credentials,
                       connections |-> connections]
           /\ result' = DatasourceRequest_publish_req_chunked(datasource_item,
                           connection_credentials, connections, boundary)
           /\ UNCHANGED <<filters, group_item, workbook_item>>

FlowPublishReq ==
    /\ call = NoCall
    /\ \E flow_item \in FlowItems, file \in Files,
          connections \in {None} \cup ConnectionLists, boundary \in Boundaries :
           /\ call' = [op |-> "Flow.publish_req", item |-> flow_item,
                       filename |-> file[1], file_contents |-> file[2],
                       connection_credentials |-> None, connections |-> connections]
           /\ result' = FlowRequest_publish_req(flow_item, file[1], file[2],
                                                connections, boundary)
           /\ UNCHANGED <<filters, group_item, workbook_item>>

FlowPublishReqChunked ==
    /\ call = NoCall
    /\ \E flow_item \in FlowItems,
          connections \in {None} \cup ConnectionLists, boundary \in Boundaries :
           /\ call' = [op |-> "Flow.publish_req_chunked", item |-> flow_item,
                       connection_credentials |-> None, connections |-> connections]
           /\ result' = FlowRequest_publish_req_chunked(flow_item, connections, boundary)
           /\ UNCHANGED <<filters, group_item, workbook_item>>

FileuploadChunkReq ==
    /\ call = NoCall
    /\ \E chunk \in Chunks, boundary \in Boundaries :
           /\ call' = [op |-> "Fileupload.chunk_req", chunk |-> chunk]
           /\ result' = FileuploadRequest_chunk_req(chunk, boundary)
           /\ UNCHANGED <<filters, group_item, workbook_item>>

WorkbookPublishReq ==
    /\ call = NoCall
    /\ \E file \in Files,
          connection_credentials \in {None} \cup CredentialsItems,
          connections \in {None} \cup ConnectionLists,
          hidden_views \in HiddenViewsArgs, boundary \in Boundaries :
           \E g \in {WorkbookRequest_publish_req(workbook_item, file[1], file[2],
                       connection_credentials, connections, hidden_views, boundary)} :
               /\ call' = [op |-> "Workbook.publish_req", item |-> workbook_item,
                           filename |-> file[1], file_contents |-> file[2],
                           connection_credentials |-> connection_credentials,
                           connections |-> connections, hidden_views |-> hidden_views]
               /\ result' = g.res
               /\ filters' = g.filters
               /\ workbook_item' = g.workbook_item
               /\ UNCHANGED group_item

WorkbookPublishReqChunked ==
    /\ call = NoCall
    /\ \E connection_credentials \in {None} \cup CredentialsItems,
          connections \in {None} \cup ConnectionLists,
          hidden_views \in HiddenViewsArgs, boundary \in Boundaries :
           \E g \in {WorkbookRequest_publish_req_chunked(workbook_item,
                       connection_credentials, connections, hidden_views, boundary)} :
               /\ call' = [op |-> "Workbook.publish_req_chunked", item |-> workbook_item,
                           connection_credentials |-> connection_credentials,
                           connections |-> connections, hidden_views |-> hidden_views]
               /\ result' = g.res
               /\ filters' = g.filters
               /\ workbook_item' = g.workbook_item
               /\ UNCHANGED group_item

NextPublish ==
    \/ DatasourcePublishReq
    \/ DatasourcePublishReqChunked
    \/ FlowPublishReq
    \/ FlowPublishReqChunked
    \/ FileuploadChunkReq
    \/ WorkbookPublishReq
    \/ WorkbookPublishReqChunked
    \/ Discard

SpecPublish == InitPublish /\ [][NextPublish]_vars


-----------------------------------------------------------------------------
(* SpecGroup: calls of RequestFactory.Group on a group item the caller keeps *)

InitGroup ==
    /\ filters \in InitialFilters
    /\ group_item \in GroupItems
    /\ workbook_item = NoWorkbookItem
    /\ call = NoCall
    /\ result = NoResult

GroupCreateLocalReq ==
    /\ call = NoCall
    /\ call' = [op |-> "Group.create_local_req", item |-> group_item,
                default_site_role |-> None]
    /\ result' = GroupRequest_create_local_req(group_item)
    /\ UNCHANGED <<filters, group_item, workbook_item>>

GroupCreateAdReq ==
    /\ call = NoCall
    /\ call' = [op |-> "Group.create_ad_req", item |-> group_item,
                default_site_role |-> None]
    /\ result' = GroupRequest_create_ad_req(group_item)
    /\ UNCHANGED <<filters, group_item, workbook_item>>

GroupUpdateReq ==
    /\ call = NoCall
    /\ \E default_site_role \in DefaultSiteRoles :
           \E g \in {GroupRequest_update_req(group_item, default_site_role)} :
               /\ call' = [op |-> "Group.update_req", item |-> group_item,
                           default_site_role |-> default_site_role]
               /\ result' = g.res
               /\ filters' = g.filters
               /\ group_item' = g.group_item
               /\ UNCHANGED workbook_item

NextGroup == GroupCreateLocalReq \/ GroupCreateAdReq \/ GroupUpdateReq \/ Discard

SpecGroup == InitGroup /\ [][NextGroup]_vars

-----------------------------------------------------------------------------
(* SpecUser: calls of RequestFactory.User *)

InitUser ==
    /\ filters \in InitialFilters
    /\ group_item = NoGroupItem
    /\ workbook_item = NoWorkbookItem
    /\ call = NoCall
    /\ result = NoResult

UserAddReq ==
    /\ call = NoCall
    /\ \E user_item \in UserItems :
           /\ call' = [op |-> "User.add_req", item |-> user_item, password |-> None]
           /\ result' = UserRequest_add_req(user_item)
           /\ UNCHANGED <<filters, group_item, workbook_item>>

UserUpdateReq ==
    /\ call = NoCall
    /\ \E user_item \in UserItems, password \in Passwords :
           /\ call' = [op |-> "User.update_req", item |-> user_item, password |-> password]
           /\ result' = UserRequest_update_req(user_item, password)
           /\ UNCHANGED <<filters, group_item, workbook_item>>

NextUser == UserAddReq \/ UserUpdateReq \/ Discard

SpecUser == InitUser /\ [][NextUser]_vars


-----------------------------------------------------------------------------
(* claims about the publish builders *)

CredentialsOps ==
    {"Datasource.publish_req", "Datasource.publish_req_chunked",
     "Workbook.publish_req", "Workbook.publish_req_chunked"}

ConnectionsOps == CredentialsOps \cup {"Flow.publish_req", "Flow.publish_req_chunked"}

PublishOps == {"Datasource.publish_req", "Workbook.publish_req", "Flow.publish_req"}

ChunkedOps == ConnectionsOps \ PublishOps

NothingReturned ==
    /\ result.returned = "nothing"
    /\ result.payload = <<>>
    /\ result.body = NoBody
    /\ result.content_type = <<>>

\* C1: a datasource or workbook publish_req / publish_req_chunked given both
\* connection_credentials and connections (both not None) fails with the
\* conflict error and returns nothing, whatever the entity and the arguments.
C1_ConflictRejected ==
    (/\ call.op \in CredentialsOps
     /\ ~IsNone(call.connection_credentials)
     /\ ~IsNone(call.connections))
    => (result.err = ErrConflict /\ NothingReturned)

\* a workbook publish given complete credentials and a list of one complete
\* connection, rejected for the conflict
C1_Witness ==
    /\ call.op = "Workbook.publish_req"
    /\ ~IsNone(call.connection_credentials)
    /\ Truthy(call.connection_credentials.name)
    /\ Truthy(call.connection_credentials.password)
    /\ ~IsNone(call.connections)
    /\ Len(call.connections.items) = 1
    /\ Truthy(call.connections.items[1].server_address)
    /\ IsNone(call.connections.items[1].connection_credentials)
    /\ result.err = ErrConflict

\* the name of the binary part each publish_req sends
BinaryPartName ==
    CASE call.op = "Datasource.publish_req" -> "tableau_datasource"
      [] call.op = "Workbook.publish_req" -> "tableau_workbook"
      [] call.op = "Flow.publish_req" -> "tableau_flow"

\* C5: a publish_req (datasource, workbook, flow) that succeeds returns a
\* content type whose type is exactly multipart/mixed and a body of exactly two
\* parts: first request_payload, with an empty filename, carrying the
\* serialized tree; then the binary part, with the caller's filename, content
\* type application/octet-stream and the caller's file contents.
C5_PublishTwoParts ==
    (call.op \in PublishOps /\ result.err = NoError)
    => /\ result.returned = "multipart"
       /\ Len(result.content_type) >= 2
       /\ result.content_type[1] = "multipart/mixed"
       /\ result.content_type[2] = ";"
       /\ Len(result.body.parts) = 2
       /\ result.body.parts[1].field.name = "request_payload"
       /\ result.body.parts[1].field.filename = ""
       /\ result.body.parts[1].field.data = SerializeElement(result.tree)
       /\ result.tree.tag = "tsRequest"
       /\ result.body.parts[2].field.name = BinaryPartName
       /\ result.body.parts[2].field.filename = call.filename
       /\ result.body.parts[2].field.content_type = "application/octet-stream"
       /\ result.body.parts[2].field.data = call.file_contents

\* a datasource publish of a named file that succeeded
C5_Witness ==
    /\ call.op = "Datasource.publish_req"
    /\ call.filename = "sales.tdsx"
    /\ ~IsNone(call.connections)
    /\ result.err = NoError
    /\ Len(result.body.parts) = 2

\* the request_payload content publish_req produces for the arguments of the
\* last (chunked) call
NonChunkedMetadata ==
    LET file == CHOOSE f \in Files : TRUE
        boundary == CHOOSE b \in Boundaries : TRUE
        r == CASE call.op = "Datasource.publish_req_chunked" ->
                    DatasourceRequest_publish_req(call.item, file[1], file[2],
                        call.connection_credentials, call.connections, boundary)
               [] call.op = "Flow.publish_req_chunked" ->
                    FlowRequest_publish_req(call.item, file[1], file[2],
                        call.connections, boundary)
               [] call.op = "Workbook.publish_req_chunked" ->
                    WorkbookRequest_publish_req(call.item, file[1], file[2],
                        call.connection_credentials, call.connections,
                        call.hidden_views, boundary).res
    IN  r.body.parts[1].field

\* C6: a publish_req_chunked that succeeds produces a body of exactly one part,
\* request_payload, whose content is the metadata part publish_req produces for
\* the same entity and arguments; chunk_req produces exactly two parts:
\* request_payload with empty content, then tableau_file carrying the chunk.
C6_ChunkedMetadataOnly ==
    /\ (call.op \in ChunkedOps /\ result.err = NoError)
       => /\ result.returned = "multipart"
          /\ Len(result.body.parts) = 1
          /\ result.body.parts[1].field.name = "request_payload"
          /\ result.body.parts[1].field = NonChunkedMetadata
          /\ result.body.parts[1].field.data = result.payload
    /\ call.op = "Fileupload.chunk_req"
       => /\ result.err = NoError
          /\ result.returned = "multipart"
          /\ Len(result.body.parts) = 2
          /\ result.body.parts[1].field.name = "request_payload"
          /\ result.body.parts[1].field.data = <<>>
          /\ result.body.parts[2].field.name = "tableau_file"
          /\ result.body.parts[2].field.data = call.chunk

\* a chunked workbook publish with a connection list and hidden views that
\* succeeded
C6_Witness ==
    /\ call.op = "Workbook.publish_req_chunked"
    /\ ~IsNone(call.connections)
    /\ call.connections.items # <<>>
    /\ ~IsNone(call.hidden_views)
    /\ result.err = NoError
    /\ Len(result.body.parts) = 1

-----------------------------------------------------------------------------
(* claims about connection lists and credential descriptors *)

CredentialsComplete(c) == Truthy(c.password) /\ Truthy(c.name)

ConnectionValid(c) ==
    /\ Truthy(c.server_address)
    /\ Truthy(c.connection_credentials) => CredentialsComplete(c.connection_credentials)

\* the last call is one that renders its connection list: a list is supplied
\* and no connection_credentials argument conflicts with it
ListRendered ==
    /\ call.op \in ConnectionsOps
    /\ ~IsNone(call.connections)
    /\ IsNone(call.connection_credentials)

\* connection i of the list is reached: every connection before it is valid
Reached(i) ==
    /\ i \in 1..Len(call.connections.items)
    /\ \A j \in 1..(i - 1) : ConnectionValid(call.connections.items[j])

\* connection i of the list is reached and its embedded credentials are rendered
EmbeddedRendered(i) ==
    /\ Reached(i)
    /\ Truthy(call.connections.items[i].server_address)
    /\ Truthy(call.connections.items[i].connection_credentials)

\* the last call renders its connection_credentials argument
DirectRendered ==
    /\ call.op \in CredentialsOps
    /\ ~IsNone(call.connection_credentials)
    /\ IsNone(call.connections)

\* the element of the entity, of the connection list and of connection i in
\* the tree of the last call
EntityElement == result.tree.children[1]

ConnectionsElement == ChildrenTagged(EntityElement, "connections")[1]

ConnectionElement(i) == ConnectionsElement.children[i]

\* parent carries the rendering of credentials descriptor c
CredentialsRenderedUnder(parent, c) ==
    LET nodes == ChildrenTagged(parent, "connectionCredentials")
    IN  /\ Len(nodes) = 1
        /\ HasAttrib(nodes[1], "name")
        /\ GetAttrib(nodes[1], "name") = c.name
        /\ HasAttrib(nodes[1], "password")
        /\ GetAttrib(nodes[1], "password") = c.password
        /\ HasAttrib(nodes[1], "embed")
        /\ GetAttrib(nodes[1], "embed") = PyStr(IF c.embed.b THEN "true" ELSE "false")

\* parent has no connectionCredentials child
NoCredentialsNodeUnder(parent) == ChildrenTagged(parent, "connectionCredentials") = <<>>

\* the last child of parent is a connectionCredentials node without attributes
BareCredentialsNodeUnder(parent) ==
    /\ Len(ChildrenTagged(parent, "connectionCredentials")) = 1
    /\ parent.children[Len(parent.children)] = Element("connectionCredentials")

\* C8 as stated: in a builder that renders a connection list, a connection
\* with no server address (None or empty) makes the call fail with a
\* validation error, and a connection with a server address whose embedded
\* credentials lack a password makes it fail with the error of the
\* credentials sub-builder.
C8_AnyInvalidConnection ==
    ListRendered =>
        \A i \in 1..Len(call.connections.items) :
            LET c == call.connections.items[i]
            IN  /\ ~Truthy(c.server_address)
                   => /\ result.err \in {ErrNoServerAddress, ErrCredentials}
                      /\ NothingReturned
                /\ (/\ Truthy(c.server_address)
                    /\ Truthy(c.connection_credentials)
                    /\ ~Truthy(c.connection_credentials.password))
                   => (result.err = ErrCredentials /\ NothingReturned)

\* C8: in a builder that renders a connection list, the first connection of
\* the list that is invalid decides the error: with no server address (None
\* or empty) the call fails with the connection check's error; with a server
\* address and embedded credentials lacking a password (or a name) it fails
\* with the error of the credentials sub-builder.  Either way nothing is
\* returned.
C8_FirstInvalidConnectionDecides ==
    ListRendered =>
        \A i \in 1..Len(call.connections.items) :
            (Reached(i) /\ ~ConnectionValid(call.connections.items[i]))
            => /\ NothingReturned
               /\ result.err =
                    IF ~Truthy(call.connections.items[i].server_address)
                    THEN ErrNoServerAddress
                    ELSE ErrCredentials

\* a flow publish whose second connection is the first invalid one, having a
\* server address and credentials without a password
C8_Witness ==
    /\ call.op = "Flow.publish_req"
    /\ ~IsNone(call.connections)
    /\ Len(call.connections.items) = 2
    /\ ConnectionValid(call.connections.items[1])
    /\ Truthy(call.connections.items[2].server_address)
    /\ Truthy(call.connections.items[2].connection_credentials)
    /\ ~Truthy(call.connections.items[2].connection_credentials.password)
    /\ result.err = ErrCredentials

\* C9 as stated: whenever a credential descriptor is rendered, directly or
\* embedded in a connection, and its name or password is missing, the call
\* fails validation before any node for the credentials has been added to the
\* tree; when both are present name, password and embed are rendered.
C9_NoNodeBeforeValidation ==
    /\ DirectRendered
       => IF CredentialsComplete(call.connection_credentials)
          THEN CredentialsRenderedUnder(EntityElement, call.connection_credentials)
          ELSE /\ result.err = ErrCredentials
               /\ NothingReturned
               /\ NoCredentialsNodeUnder(EntityElement)
    /\ ListRendered
       => \A i \in 1..Len(call.connections.items) :
            EmbeddedRendered(i)
            => IF CredentialsComplete(call.connections.items[i].connection_credentials)
               THEN CredentialsRenderedUnder(ConnectionElement(i),
                        call.connections.items[i].connection_credentials)
               ELSE /\ result.err = ErrCredentials
                    /\ NothingReturned
                    /\ NoCredentialsNodeUnder(ConnectionElement(i))

\* C9: whenever a credential descriptor is rendered, directly or embedded in
\* a connection, and its name or password is missing, the call fails with the
\* credentials validation error and returns nothing, the connectionCredentials
\* node having been added to the tree, without attributes, before the check;
\* when both are present name, password and embed are rendered.
C9_CredentialsValidated ==
    /\ DirectRendered
       => IF CredentialsComplete(call.connection_credentials)
          THEN CredentialsRenderedUnder(EntityElement, call.connection_credentials)
          ELSE /\ result.err = ErrCredentials
               /\ NothingReturned
               /\ BareCredentialsNodeUnder(EntityElement)
    /\ ListRendered
       => \A i \in 1..Len(call.connections.items) :
            EmbeddedRendered(i)
            => IF CredentialsComplete(call.connections.items[i].connection_credentials)
               THEN CredentialsRenderedUnder(ConnectionElement(i),
                        call.connections.items[i].connection_credentials)
               ELSE /\ result.err = ErrCredentials
                    /\ NothingReturned
                    /\ BareCredentialsNodeUnder(ConnectionElement(i))

\* a datasource publish given credentials with a password and no name, rejected
\* by the credentials check
C9_Witness ==
    /\ call.op = "Datasource.publish_req"
    /\ DirectRendered
    /\ ~Truthy(call.connection_credentials.name)
    /\ Truthy(call.connection_credentials.password)
    /\ result.err = ErrCredentials

-----------------------------------------------------------------------------
(* claims about the user and group builders *)

\* C7: UserRequest.add_req fails with a validation error and returns nothing
\* whenever user_item.name is None; whenever name and site_role are both
\* strings it succeeds and returns a tree whose single root child is a user
\* element with name and siteRole equal to the entity's name and site_role.
C7_UserAddReq ==
    call.op = "User.add_req"
    => /\ IsNone(call.item.name)
          => (result.err = ErrUserName /\ NothingReturned)
       /\ (IsStr(call.item.name) /\ IsStr(call.item.site_role))
          => /\ result.err = NoError
             /\ result.returned = "bytes"
             /\ result.payload = SerializeElement(result.tree)
             /\ result.tree.tag = "tsRequest"
             /\ Len(result.tree.children) = 1
             /\ result.tree.children[1].tag = "user"
             /\ HasAttrib(result.tree.children[1], "name")
             /\ GetAttrib(result.tree.children[1], "name") = call.item.name
             /\ HasAttrib(result.tree.children[1], "siteRole")
             /\ GetAttrib(result.tree.children[1], "siteRole") = call.item.site_role

\* add_req of a user without a name but with a site role, rejected
C7_Witness ==
    /\ call.op = "User.add_req"
    /\ IsNone(call.item.name)
    /\ IsStr(call.item.site_role)
    /\ result.err = ErrUserName

GroupOps == {"Group.create_local_req", "Group.create_ad_req", "Group.update_req"}

\* C10: create_local_req, create_ad_req and update_req of GroupRequest each
\* fail with the group-name validation error and return nothing whenever
\* group_item.name is None, whatever the other fields and default_site_role.
C10_GroupNameRequired ==
    (call.op \in GroupOps /\ IsNone(call.item.name))
    => (result.err = ErrGroupName /\ NothingReturned)

\* update_req of a nameless group with default_site_role supplied, rejected
C10_Witness ==
    /\ call.op = "Group.update_req"
    /\ IsNone(call.item.name)
    /\ ~IsNone(call.default_site_role)
    /\ result.err = ErrGroupName


-----------------------------------------------------------------------------
(* claims about the rendering of boolean fields *)

\* the attributes of the site element that render the boolean fields the
\* site items set
SiteBooleanAttribs ==
    {"flowsEnabled", "editingFlowsEnabled", "schedulingFlowsEnabled", "dataAlertsEnabled"}

BooleanWords == {PyStr("true"), PyStr("false")}

\* C11: in the tree that create_req and update_req of SiteRequest return,
\* every attribute rendering a boolean field (the flow flags and
\* dataAlertsEnabled among them) has exactly the value "true" or "false",
\* never "True", "False", "1" or "none".
C11_BooleansLowercase ==
    (SiteCall /\ result.returned = "bytes")
    => \A a \in SiteBooleanAttribs :
          HasAttrib(SiteElement, a) => GetAttrib(SiteElement, a) \in BooleanWords


-----------------------------------------------------------------------------
(* DatabaseRequest, DatasourceRequest, TableRequest: the update builders *)

\* the contact, askData, project or owner child, added when the field is truthy
AddIdChild(parent, tag, attr, value) ==
    IF Truthy(value)
    THEN AppendChild(parent, SetAttrib(Element(tag), attr, value))
    ELSE parent

DatabaseRequest_update_req(database_item) ==
    LET xml_request == Element("tsRequest")
        d1 == AddIdChild(Element("database"), "contact", "id", database_item.contact_id)
        d2 == ApplyRules(d1, database_item,
                << <<"certified", "isCertified", "always", "strlower">>,
                   <<"certification_note", "certificationNote", "truthy", "str">>,
                   <<"description", "description", "truthy", "str">> >>)
    IN  Returned(AppendChild(xml_request, d2), <<>>)

DatasourceRequest_update_req(datasource_item) ==
    LET xml_request == Element("tsRequest")
        d1 == ApplyRules(Element("datasource"), datasource_item,
                << <<"name", "name", "truthy", "raw">> >>)
        d2 == AddIdChild(d1, "askData", "enablement", datasource_item.ask_data_enablement)
        d3 == AddIdChild(d2, "project", "id", datasource_item.project_id)
        d4 == AddIdChild(d3, "owner", "id", datasource_item.owner_id)
        d5 == ApplyRules(d4, datasource_item,
                << <<"certified", "isCertified", "always", "strlower">>,
                   <<"certification_note", "certificationNote", "truthy", "str">>,
                   <<"encrypt_extracts", "encryptExtracts", "notnone", "strlower">> >>)
    IN  Returned(AppendChild(xml_request, d5), <<>>)

TableRequest_update_req(table_item) ==
    LET xml_request == Element("tsRequest")
        t1 == AddIdChild(Element("table"), "contact", "id", table_item.contact_id)
        t2 == ApplyRules(t1, table_item,
                << <<"certified", "isCertified", "always", "strlower">>,
                   <<"certification_note", "certificationNote", "truthy", "str">>,
                   <<"description", "description", "truthy", "str">> >>)
    IN  Returned(AppendChild(xml_request, t2), <<>>)

\* database and table items: the fields update_req reads
CatalogItems ==
    { [contact_id |-> contact_id, certified |-> certified,
       certification_note |-> certification_note, description |-> description]
      : contact_id \in {None, PyStr("u1")}, certified \in Flags,
        certification_note \in {None, PyStr(""), PyStr("checked")},
        description \in {None, PyStr("orders")} }

\* datasource items: the fields update_req reads
DatasourceUpdateItems ==
    { [name |-> name, ask_data_enablement |-> ask, project_id |-> project_id,
       owner_id |-> owner_id, certified |-> certified,
       certification_note |-> certification_note, encrypt_extracts |-> encrypt]
      : name \in {None, PyStr("sales")}, ask \in {None, PyStr("Enabled")},
        project_id \in {None, PyStr("p1")}, owner_id \in {None, PyStr("u1")},
        certified \in Flags, certification_note \in {None, PyStr("checked")},
        encrypt \in Flags }

InitUpdate ==
    /\ filters = <<>>
    /\ group_item = NoGroupItem
    /\ workbook_item = NoWorkbookItem
    /\ call = NoCall
    /\ result = NoResult

DatabaseUpdateReq ==
    /\ call = NoCall
    /\ \E database_item \in CatalogItems :
           /\ call' = [op |-> "Database.update_req", item |-> database_item]
           /\ result' = DatabaseRequest_update_req(database_item)
           /\ UNCHANGED <<filters, group_item, workbook_item>>

DatasourceUpdateReq ==
    /\ call = NoCall
    /\ \E datasource_item \in DatasourceUpdateItems :
           /\ call' = [op |-> "Datasource.update_req", item |-> datasource_item]
           /\ result' = DatasourceRequest_update_req(datasource_item)
           /\ UNCHANGED <<filters, group_item, workbook_item>>

TableUpdateReq ==
    /\ call = NoCall
    /\ \E table_item \in CatalogItems :
           /\ call' = [op |-> "Table.update_req", item |-> table_item]
           /\ result' = TableRequest_update_req(table_item)
           /\ UNCHANGED <<filters, group_item, workbook_item>>

NextUpdate == DatabaseUpdateReq \/ DatasourceUpdateReq \/ TableUpdateReq \/ Discard

SpecUpdate == InitUpdate /\ [][NextUpdate]_vars

CertifiedOps == {"Database.update_req", "Datasource.update_req", "Table.update_req"}

\* C12: the entity element of update_req of DatabaseRequest, DatasourceRequest
\* and TableRequest always carries isCertified, and its value is exactly
\* "true" or "false", whatever the certified field holds, None included.
C12_CertifiedAlwaysBoolean ==
    call.op \in CertifiedOps
    => /\ HasAttrib(EntityElement, "isCertified")
       /\ GetAttrib(EntityElement, "isCertified") \in BooleanWords


-----------------------------------------------------------------------------
(* claims about unset fields *)

\* the project children of the entity element carry no id attribute
NoProjectId ==
    \A i \in 1..Len(ChildrenTagged(EntityElement, "project")) :
        ~HasAttrib(ChildrenTagged(EntityElement, "project")[i], "id")

\* C13: in the tree a publish builder (datasource, workbook, flow; chunked or
\* not) returns, a field that is None on the entity has no attribute: no name
\* attribute for an unset name, no id on the project element for an unset
\* project_id, and for a datasource no description, no useRemoteQueryAgent and
\* no askData element for the unset field.
C13_UnsetFieldsOmitted ==
    (call.op \in ConnectionsOps /\ result.err = NoError)
    => /\ IsNone(call.item.name) => ~HasAttrib(EntityElement, "name")
       /\ IsNone(call.item.project_id) => NoProjectId
       /\ call.op \in {"Datasource.publish_req", "Datasource.publish_req_chunked"}
          => /\ IsNone(call.item.description) => ~HasAttrib(EntityElement, "description")
             /\ IsNone(call.item.use_remote_query_agent)
                => ~HasAttrib(EntityElement, "useRemoteQueryAgent")
             /\ IsNone(call.item.ask_data_enablement)
                => ChildrenTagged(EntityElement, "askData") = <<>>


-----------------------------------------------------------------------------
(* the builders that take a deprecated parameter, called one after another *)
(* by a caller that holds a group item or a workbook item, under either     *)
(* initial filter list                                                      *)

InitDeprecated ==
    /\ filters \in InitialFilters
    /\ \/ group_item \in GroupItems /\ workbook_item = NoWorkbookItem
       \/ group_item = NoGroupItem /\ workbook_item \in WorkbookItems
    /\ call = NoCall
    /\ result = NoResult

\* the caller holds a workbook item to publish
HasWorkbook == workbook_item # NoWorkbookItem

NextDeprecated ==
    \/ GroupUpdateReq
    \/ HasWorkbook /\ WorkbookPublishReq
    \/ HasWorkbook /\ WorkbookPublishReqChunked
    \/ Discard

SpecDeprecated == InitDeprecated /\ [][NextDeprecated]_vars

-----------------------------------------------------------------------------
(* claims about the deprecated parameters *)

\* the site role the group tree renders: siteRole of the import element for
\* an Active Directory group, minimumSiteRole of the group element otherwise
RenderedSiteRole ==
    IF ChildrenTagged(EntityElement, "import") # <<>>
    THEN GetAttrib(ChildrenTagged(EntityElement, "import")[1], "siteRole")
    ELSE GetAttrib(EntityElement, "minimumSiteRole")

\* C14: when update_req of GroupRequest is given default_site_role, the value
\* is copied into group_item.minimum_site_role only when that field is unset;
\* a minimum_site_role already set keeps its value, and that value is the
\* one rendered.
C14_DeprecatedCopiedOnlyIfUnset ==
    (call.op = "Group.update_req" /\ ~IsNone(call.default_site_role))
    => IF IsNone(call.item.minimum_site_role)
       THEN group_item.minimum_site_role = call.default_site_role
       ELSE /\ group_item.minimum_site_role = call.item.minimum_site_role
            /\ result.returned = "bytes"
               => RenderedSiteRole = call.item.minimum_site_role


WorkbookOps == {"Workbook.publish_req", "Workbook.publish_req_chunked"}

\* the last call was given its deprecated parameter
DeprecatedSupplied ==
    \/ call.op = "Group.update_req" /\ ~IsNone(call.default_site_role)
    \/ call.op \in WorkbookOps /\ ~IsNone(call.hidden_views)

\* the credentials and connections of the last workbook call are rendered
\* without an exception, so that the call reaches its hidden views
ReachesHiddenViews ==
    /\ IsNone(call.connection_credentials) \/ IsNone(call.connections)
    /\ ~IsNone(call.connection_credentials)
       => CredentialsComplete(call.connection_credentials)
    /\ ~IsNone(call.connections)
       => \A i \in 1..Len(call.connections.items) :
             ConnectionValid(call.connections.items[i])

\* the result of the last call, had it been made without its deprecated
\* parameter
WithoutDeprecated ==
    CASE call.op = "Group.update_req" -> GroupRequest_update_req(call.item, None).res
      [] call.op = "Workbook.publish_req" ->
            WorkbookRequest_publish_req(call.item, call.filename, call.file_contents,
                call.connection_credentials, call.connections, None, "4f2a").res
      [] call.op = "Workbook.publish_req_chunked" ->
            WorkbookRequest_publish_req_chunked(call.item, call.connection_credentials,
                call.connections, None, "4f2a").res

\* the deprecated parameter is not fatal: no warning is raised as an
\* exception, and a call that succeeds without the parameter succeeds with it
DeprecatedNotFatal ==
    /\ result.err # ErrDeprecationWarning
    /\ WithoutDeprecated.err = NoError => result.err = NoError /\ result.payload # <<>>

\* C15 as stated: in update_req of GroupRequest and the workbook publish
\* builders a deprecation warning is emitted if and only if the deprecated
\* parameter is supplied, and supplying it is never fatal.
C15_WarnedIffSupplied ==
    call.op \in {"Group.update_req"} \cup WorkbookOps
    => /\ (result.warnings # <<>>) <=> DeprecatedSupplied
       /\ DeprecatedSupplied => DeprecatedNotFatal

\* C15: update_req of GroupRequest emits its deprecation warning if and only
\* if default_site_role is supplied; the workbook publish builders emit
\* theirs if and only if hidden_views is supplied and the credentials and
\* connections before it raise no exception; the warning is the deprecation
\* warning of the builder, and supplying the parameter is never fatal,
\* whatever the warnings filters.
C15_WarnedWhenReached ==
    /\ call.op = "Group.update_req"
       => /\ result.warnings = IF DeprecatedSupplied THEN <<WarnDefaultSiteRole>> ELSE <<>>
          /\ DeprecatedSupplied => DeprecatedNotFatal
    /\ call.op \in WorkbookOps
       => /\ result.warnings = IF DeprecatedSupplied /\ ReachesHiddenViews
                               THEN <<WarnHiddenViews>> ELSE <<>>
          /\ DeprecatedSupplied => DeprecatedNotFatal

\* a workbook publish given hidden_views while warnings are turned into
\* errors: it warns and returns its payload
C15_Witness ==
    /\ call.op = "Workbook.publish_req"
    /\ ~IsNone(call.hidden_views)
    /\ \E i \in 1..Len(filters) : filters[i] = [action |-> "error", category |-> "Warning"]
    /\ result.warnings = <<WarnHiddenViews>>
    /\ result.returned = "multipart"


\* the write-back of a deprecated parameter: the modern field of the entity
\* takes the value of the parameter, every other field stays
GroupWriteBack(before, after, default_site_role) ==
    /\ ~IsNone(default_site_role)
    /\ after = [before EXCEPT !.minimum_site_role = default_site_role]

WorkbookWriteBack(before, after, hidden_views) ==
    /\ ~IsNone(hidden_views)
    /\ after = [before EXCEPT !.hidden_views = hidden_views]

\* C16: a builder call leaves the entity it is given as it was, field for
\* field, but for the write of a supplied deprecated parameter into its
\* modern field (minimum_site_role in update_req of GroupRequest,
\* hidden_views in the workbook publish builders); without the deprecated
\* parameter no entity is modified, whether the call returns or raises.
C16_InputsUnchanged ==
    [][ /\ group_item' # group_item
           => /\ call'.op = "Group.update_req"
              /\ GroupWriteBack(group_item, group_item', call'.default_site_role)
        /\ workbook_item' # workbook_item
           => /\ call'.op \in WorkbookOps
              /\ WorkbookWriteBack(workbook_item, workbook_item', call'.hidden_views)
      ]_vars

\* a workbook publish given hidden_views has written them into the item,
\* whose other fields stay as they were
C16_Witness ==
    /\ call.op \in WorkbookOps
    /\ result.returned = "multipart"
    /\ workbook_item # call.item
    /\ WorkbookWriteBack(call.item, workbook_item, call.hidden_views)


\* the last call made once more with the same arguments, on the entity and
\* under the warnings filters the last call left behind; the publish
\* builders draw a boundary of their own
Repeated ==
    CASE call.op = "Group.update_req" ->
            GroupRequest_update_req(group_item, call.default_site_role).res
      [] call.op = "Workbook.publish_req" ->
            WorkbookRequest_publish_req(workbook_item, call.filename, call.file_contents,
                call.connection_credentials, call.connections, call.hidden_views,
                "9c1e").res
      [] call.op = "Workbook.publish_req_chunked" ->
            WorkbookRequest_publish_req_chunked(workbook_item, call.connection_credentials,
                call.connections, call.hidden_views, "9c1e").res

\* C17: a call that returned, made a second time with the same arguments,
\* returns again, and the XML bytes of the second call (for a publish, the
\* content of its request_payload part) are those of the first; so too when
\* the deprecated parameter is given on both calls.
C17_RepeatedCallSameBytes ==
    (call.op \in {"Group.update_req"} \cup WorkbookOps /\ result.err = NoError)
    => /\ Repeated.err = NoError
       /\ Repeated.returned = result.returned
       /\ Repeated.payload = result.payload

\* a workbook without hidden views was published with hidden_views, which
\* the call wrote into the item; the second call renders the same bytes
C17_Witness ==
    /\ call.op = "Workbook.publish_req"
    /\ ~IsNone(call.hidden_views)
    /\ IsNone(call.item.hidden_views)
    /\ workbook_item # call.item
    /\ result.returned = "multipart"
    /\ Repeated.payload = result.payload
    /\ Repeated.body # result.body


\* the payload of update_req(g), without the deprecated parameter, for the
\* group g; the builder reads no warnings filter on this path
GroupPayload(g) == GroupRequest_update_req(g, None).res.payload

\* the payload of publish_req(w, ...), without hidden_views, for the workbook w
WorkbookPayload(w) ==
    WorkbookRequest_publish_req(w, "sales.tdsx", <<"PK-sales">>, None, None, None, "4f2a").res.payload

\* the last call made on the entity it left behind, without its deprecated
\* parameter
Afterwards ==
    CASE call.op = "Group.update_req" -> GroupRequest_update_req(group_item, None).res
      [] call.op = "Workbook.publish_req" ->
            WorkbookRequest_publish_req(workbook_item, call.filename, call.file_contents,
                call.connection_credentials, call.connections, None, "4f2a").res
      [] call.op = "Workbook.publish_req_chunked" ->
            WorkbookRequest_publish_req_chunked(workbook_item, call.connection_credentials,
                call.connections, None, "4f2a").res

\* C18 as stated: no call changes the payload a later call returns for the
\* same entity object: update_req(g) and a publish of w without hidden_views
\* return after any call what they would have returned before it.
C18_NoStateRetained ==
    [][ /\ group_item # NoGroupItem => GroupPayload(group_item') = GroupPayload(group_item)
        /\ workbook_item # NoWorkbookItem
           => WorkbookPayload(workbook_item') = WorkbookPayload(workbook_item)
      ]_vars

\* C18: the builders keep no state of their own; what a call returns is
\* determined by its arguments and by the fields of the entity object, and
\* an earlier call bears on a later one only through the deprecated
\* parameter it wrote into the entity: once a call given the parameter has
\* returned, the same call without the parameter returns the same payload
\* for that entity object, whatever the warnings filters.
C18_RetainedInEntityOnly ==
    (call.op \in {"Group.update_req"} \cup WorkbookOps /\ result.err = NoError)
    => /\ Afterwards.err = NoError
       /\ Afterwards.payload = result.payload

\* update_req(g, default_site_role=r) returned for a group whose role was
\* not r: update_req(g) now renders r, not the role the group had
C18_Witness ==
    /\ call.op = "Group.update_req"
    /\ ~IsNone(call.default_site_role)
    /\ call.item.minimum_site_role # call.default_site_role
    /\ result.returned = "bytes"
    /\ GroupPayload(group_item) = result.payload
    /\ GroupPayload(call.item) # result.payload


\* C19: no builder call writes state shared with other calls: the
\* process-wide list of warnings filters is after every call what it was
\* before it.
C19_NoSharedStateWritten == [][filters' = filters]_vars


-----------------------------------------------------------------------------
(* TaskRequest, EmptyRequest and the _tsrequest_wrapped decorator *)

\* the body of run_req (pass): xml_request as it was given
run_req(xml_request, task_item) == xml_request

\* the body of empty_req (pass)
empty_req(xml_request, args) == xml_request

RECURSIVE AddDatasources(_, _, _)
\* for datasource_item in datasources: the datasource child with its id
AddDatasources(list_element, datasources, i) ==
    IF i > Len(datasources) THEN list_element
    ELSE AddDatasources(
            AppendChild(list_element,
                        SetAttrib(Element("datasource"), "id", datasources[i].id)),
            datasources, i + 1)

\* a faulty variant: the datasources are listed whatever include_all says
embedded_extract_req_listing_all(xml_request, args) ==
    LET include_all == args[1]
        datasources == args[2]
        list_element == Element("datasources")
        l1 == IF Truthy(include_all)
              THEN SetAttrib(list_element, "includeAll", PyStr("true"))
              ELSE list_element
    IN  AppendChild(xml_request,
            IF Truthy(datasources) THEN AddDatasources(l1, datasources.items, 1) ELSE l1)

\* the body of embedded_extract_req; args is <<include_all, datasources>>
embedded_extract_req(xml_request, args) ==
    LET include_all == args[1]
        datasources == args[2]
        list_element == Element("datasources")
    IN  AppendChild(xml_request,
            IF Truthy(include_all)
            THEN SetAttrib(list_element, "includeAll", PyStr("true"))
            ELSE IF Truthy(datasources)
            THEN AddDatasources(list_element, datasources.items, 1)
            ELSE list_element)

\* func(self, xml_request, *args), for the decorated functions modelled
Decorated(func, xml_request, args) ==
    CASE func = "run_req" -> run_req(xml_request, args)
      [] func = "empty_req" -> empty_req(xml_request, args)
      [] func = "embedded_extract_req" -> embedded_extract_req(xml_request, args)

\* wrapper of _tsrequest_wrapped(func): the root element is created, func
\* fills it, and the serialized root is returned
tsrequest_wrapped(func, args) ==
    LET xml_request == Element("tsRequest")
    IN  Returned(Decorated(func, xml_request, args), <<>>)

\* a faulty variant: the task is named in the request
TaskRequest_run_req_with_task(task_item) ==
    Returned(AppendChild(Element("tsRequest"),
                         SetAttrib(Element("task"), "id", task_item.id)), <<>>)

TaskRequest_run_req(task_item) == tsrequest_wrapped("run_req", task_item)

EmptyRequest_empty_req == tsrequest_wrapped("empty_req", <<>>)

\* a keyword argument the caller left out
Omitted == [type |-> "omitted"]

\* include_all=True and datasources=None are the defaults
WorkbookRequest_embedded_extract_req(include_all, datasources) ==
    tsrequest_wrapped("embedded_extract_req",
        <<IF include_all = Omitted THEN PyBool(TRUE) ELSE include_all,
          IF datasources = Omitted THEN None ELSE datasources>>)

TaskItems == { [id |-> id] : id \in {None, PyStr("t-17")} }

-----------------------------------------------------------------------------
(* SpecFactory: calls of every builder of RequestFactory that is modelled *)

\* the caller holds no workbook, and a group with no field set
NoEntity == group_item = NoGroupItem /\ ~HasWorkbook

InitFactory ==
    /\ filters = <<>>
    /\ \/ group_item \in GroupItems /\ workbook_item = NoWorkbookItem
       \/ group_item = NoGroupItem /\ workbook_item \in WorkbookItems
    /\ call = NoCall
    /\ result = NoResult

TaskRunReq ==
    /\ call = NoCall
    /\ \E task_item \in TaskItems :
           /\ call' = [op |-> "Task.run_req", item |-> task_item]
           /\ result' = TaskRequest_run_req(task_item)
           /\ UNCHANGED <<filters, group_item, workbook_item>>

EmptyReq ==
    /\ call = NoCall
    /\ call' = [op |-> "Empty.empty_req"]
    /\ result' = EmptyRequest_empty_req
    /\ UNCHANGED <<filters, group_item, workbook_item>>

NextFactory ==
    \/ NoEntity /\ TaskRunReq
    \/ NoEntity /\ EmptyReq
    \/ NoEntity /\ SiteUpdateReq
    \/ NoEntity /\ SiteCreateReq
    \/ NoEntity /\ UserAddReq
    \/ NoEntity /\ UserUpdateReq
    \/ NoEntity /\ DatabaseUpdateReq
    \/ NoEntity /\ DatasourceUpdateReq
    \/ NoEntity /\ TableUpdateReq
    \/ NoEntity /\ DatasourcePublishReq
    \/ NoEntity /\ DatasourcePublishReqChunked
    \/ NoEntity /\ FlowPublishReq
    \/ NoEntity /\ FlowPublishReqChunked
    \/ NoEntity /\ FileuploadChunkReq
    \/ ~HasWorkbook /\ GroupCreateLocalReq
    \/ ~HasWorkbook /\ GroupCreateAdReq
    \/ ~HasWorkbook /\ GroupUpdateReq
    \/ HasWorkbook /\ WorkbookPublishReq
    \/ HasWorkbook /\ WorkbookPublishReqChunked
    \/ Discard

SpecFactory == InitFactory /\ [][NextFactory]_vars

-----------------------------------------------------------------------------
(* claims about the root element *)

\* the serialized form of the root element with no attribute and no child
BareRoot == <<"<tsRequest", " />">>

\* bytes hold one element, tsRequest, from their first token to their last
OneTsRequestDocument(bytes) ==
    /\ Len(bytes) >= 2
    /\ bytes[1] = "<tsRequest"
    /\ Cardinality({i \in 1..Len(bytes) : bytes[i] = "<tsRequest"}) = 1
    /\ \/ bytes = BareRoot
       \/ /\ bytes[2] = ">"
          /\ bytes[Len(bytes)] = "</tsRequest>"
          /\ Cardinality({i \in 1..Len(bytes) : bytes[i] = "</tsRequest>"}) = 1

SingleModeOps ==
    {"Task.run_req", "Empty.empty_req", "Site.update_req", "Site.create_req",
     "User.add_req", "User.update_req", "Database.update_req", "Datasource.update_req",
     "Table.update_req", "Group.create_local_req", "Group.create_ad_req",
     "Group.update_req"}

\* C20: what a single-mode builder returns is one document, whose root is
\* tsRequest; so is the content of the request_payload part, the first part,
\* of every publish_req and publish_req_chunked; run_req of TaskRequest and
\* empty_req of EmptyRequest return the root with no attribute and no child.
C20_RootEnvelope ==
    /\ (call.op \in SingleModeOps /\ result.err = NoError)
       => /\ result.returned = "bytes"
          /\ result.tree.tag = "tsRequest"
          /\ result.tree.attrib = <<>>
          /\ result.payload = SerializeElement(result.tree)
          /\ OneTsRequestDocument(result.payload)
    /\ (call.op \in ConnectionsOps /\ result.err = NoError)
       => /\ result.returned = "multipart"
          /\ result.body.parts[1].field.name = "request_payload"
          /\ result.body.parts[1].field.data = SerializeElement(result.tree)
          /\ result.tree.tag = "tsRequest"
          /\ OneTsRequestDocument(result.body.parts[1].field.data)
    /\ call.op \in {"Task.run_req", "Empty.empty_req"}
       => /\ result.returned = "bytes"
          /\ result.tree = Element("tsRequest")
          /\ result.payload = BareRoot

\* run_req returned for a task
C20_Witness ==
    /\ call.op = "Task.run_req"
    /\ ~IsNone(call.item.id)
    /\ result.returned = "bytes"
    /\ result.payload = BareRoot


-----------------------------------------------------------------------------
(* claims about validation and the encoder *)

\* C21: a builder call fails with a validation error before ET.tostring
\* runs, or hands ET.tostring a tree whose attribute values are all strings:
\* no call fails inside the encoder, and none builds a tree holding an
\* attribute value that is not a string.
C21_EncoderNeverFails ==
    /\ result.err # ErrSerialize
    /\ result.err = NoError => AllAttribsStr(result.tree)


-----------------------------------------------------------------------------
(* ScheduleRequest *)

\* hasattr(obj, name): obj.attrs holds the names of the attributes obj has
hasattr(obj, name) == name \in obj.attrs

\* interval_item._interval_type_pairs(): the pairs <<expression, value>> the
\* interval item answers with
interval_type_pairs(interval_item) == interval_item.pairs

RECURSIVE AddIntervals(_, _, _)
\* for interval in pairs: the interval child with its one attribute
AddIntervals(intervals_element, pairs, i) ==
    IF i > Len(pairs) THEN intervals_element
    ELSE AddIntervals(
            AppendChild(intervals_element,
                        SetAttrib(Element("interval"), pairs[i][1], pairs[i][2])),
            pairs, i + 1)

\* frequencyDetails with its start and, when the item has one, its end
FrequencyElement(interval_item) ==
    LET f1 == SetAttrib(Element("frequencyDetails"), "start", Str(interval_item.start_time))
    IN  IF hasattr(interval_item, "end_time") /\ ~IsNone(interval_item.end_time)
        THEN SetAttrib(f1, "end", Str(interval_item.end_time))
        ELSE f1

ErrNoFrequency == "AttributeError: 'NoneType' object has no attribute '_frequency'"

ScheduleRequest_create_req(schedule_item) ==
    LET xml_request == Element("tsRequest")
        interval_item == schedule_item.interval_item
        s1 == ApplyRules(Element("schedule"), schedule_item,
                << <<"name", "name", "always", "raw">>,
                   <<"priority", "priority", "always", "str">>,
                   <<"schedule_type", "type", "always", "raw">>,
                   <<"execution_order", "executionOrder", "always", "raw">> >>)
        s2 == SetAttrib(s1, "frequency", interval_item.frequency)
        f1 == FrequencyElement(interval_item)
        f2 == IF hasattr(interval_item, "interval") /\ Truthy(interval_item.interval)
              THEN AppendChild(f1, AddIntervals(Element("intervals"),
                                                interval_type_pairs(interval_item), 1))
              ELSE f1
    IN  IF IsNone(interval_item)
        THEN Failed(ErrNoFrequency, AppendChild(xml_request, s1), <<>>)
        ELSE Returned(AppendChild(xml_request, AppendChild(s2, f2)), <<>>)

ScheduleRequest_update_req(schedule_item) ==
    LET xml_request == Element("tsRequest")
        interval_item == schedule_item.interval_item
        s1 == ApplyRules(Element("schedule"), schedule_item,
                << <<"name", "name", "truthy", "raw">>,
                   <<"priority", "priority", "truthy", "str">>,
                   <<"execution_order", "executionOrder", "truthy", "raw">>,
                   <<"state", "state", "truthy", "raw">> >>)
        s2 == IF Truthy(interval_item.frequency)
              THEN SetAttrib(s1, "frequency", interval_item.frequency)
              ELSE s1
        f1 == FrequencyElement(interval_item)
        intervals_element ==
            IF hasattr(interval_item, "interval")
            THEN AddIntervals(Element("intervals"), interval_type_pairs(interval_item), 1)
            ELSE Element("intervals")
    IN  IF IsNone(interval_item)
        THEN Returned(AppendChild(xml_request, s1), <<>>)
        ELSE Returned(AppendChild(xml_request,
                                  AppendChild(s2, AppendChild(f1, intervals_element))), <<>>)

\* TaskItem.Type.ExtractRefresh and TaskItem.Type.RunFlow
ExtractRefresh == "extractRefresh"

RunFlow == "runFlow"

ErrIdNotString == "ValueError: id_ should be a string"

\* a faulty variant: an id is wanted, of whatever type
ScheduleRequest_add_to_req_any_type(id_, target_type, task_type) ==
    LET xml_request == Element("tsRequest")
        workbook == SetAttrib(Element(target_type), "id", id_)
        task == AppendChild(Element(task_type), workbook)
        task_element == AppendChild(Element("task"), task)
    IN  IF ~Truthy(id_)
        THEN Failed(ErrIdNotString, Element("none"), <<>>)
        ELSE Returned(AppendChild(xml_request, task_element), <<>>)

ScheduleRequest_add_to_req(id_, target_type, task_type) ==
    LET xml_request == Element("tsRequest")
        workbook == SetAttrib(Element(target_type), "id", id_)
        task == AppendChild(Element(task_type), workbook)
        task_element == AppendChild(Element("task"), task)
    IN  IF ~IsStr(id_)
        THEN Failed(ErrIdNotString, Element("none"), <<>>)
        ELSE Returned(AppendChild(xml_request, task_element), <<>>)

\* an optional argument the caller left out
NotGiven == "<not given>"

\* the value of a parameter with a default
Default(arg, default) == IF arg = NotGiven THEN default ELSE arg

ScheduleRequest_add_workbook_req(id_, task_type) ==
    ScheduleRequest_add_to_req(id_, "workbook", Default(task_type, ExtractRefresh))

ScheduleRequest_add_datasource_req(id_, task_type) ==
    ScheduleRequest_add_to_req(id_, "datasource", Default(task_type, ExtractRefresh))

ScheduleRequest_add_flow_req(id_, task_type) ==
    ScheduleRequest_add_to_req(id_, "flow", Default(task_type, RunFlow))

-----------------------------------------------------------------------------
(* SpecSchedule: calls of RequestFactory.Schedule *)

\* interval items: hourly (with and without an end), daily (neither end_time
\* nor interval), weekly and monthly; times stand as their str() form
IntervalItems ==
    { [type |-> "IntervalItem", attrs |-> {"end_time", "interval"}, frequency |-> PyStr("Hourly"),
       start_time |-> PyStr("07:00:00"), end_time |-> end_time,
       interval |-> PyInt(2), pairs |-> << <<"hours", PyStr("2")>> >>]
      : end_time \in {None, PyStr("19:00:00")} }
    \cup
    { [type |-> "IntervalItem", attrs |-> {}, frequency |-> PyStr("Daily"),
       start_time |-> PyStr("07:00:00"), end_time |-> None,
       interval |-> None, pairs |-> <<>>],
      [type |-> "IntervalItem", attrs |-> {"interval"}, frequency |-> PyStr("Weekly"),
       start_time |-> PyStr("07:00:00"), end_time |-> None,
       interval |-> PyList(<<PyStr("Monday"), PyStr("Friday")>>),
       pairs |-> << <<"weekDay", PyStr("Monday")>>, <<"weekDay", PyStr("Friday")>> >>],
      [type |-> "IntervalItem", attrs |-> {"interval"}, frequency |-> PyStr("Monthly"),
       start_time |-> PyStr("07:00:00"), end_time |-> None,
       interval |-> PyStr("15"), pairs |-> << <<"monthDay", PyStr("15")>> >>] }

ScheduleItems ==
    { [name |-> name, priority |-> priority, schedule_type |-> PyStr("Extract"),
       execution_order |-> PyStr("Parallel"), state |-> state,
       interval_item |-> interval_item]
      : name \in {None, PyStr("nightly")}, priority \in {PyInt(0), PyInt(50)},
        state \in {None, PyStr("Suspended")},
        interval_item \in {None} \cup IntervalItems }

TargetIds == {None, PyInt(12), PyStr(""), PyStr("a1b2")}

TaskTypes == {NotGiven, ExtractRefresh, RunFlow}

InitSchedule ==
    /\ filters = <<>>
    /\ group_item = NoGroupItem
    /\ workbook_item = NoWorkbookItem
    /\ call = NoCall
    /\ result = NoResult

ScheduleCreateReq ==
    /\ call = NoCall
    /\ \E schedule_item \in ScheduleItems :
           /\ call' = [op |-> "Schedule.create_req", item |-> schedule_item]
           /\ result' = ScheduleRequest_create_req(schedule_item)
           /\ UNCHANGED <<filters, group_item, workbook_item>>

ScheduleUpdateReq ==
    /\ call = NoCall
    /\ \E schedule_item \in ScheduleItems :
           /\ call' = [op |-> "Schedule.update_req", item |-> schedule_item]
           /\ result' = ScheduleRequest_update_req(schedule_item)
           /\ UNCHANGED <<filters, group_item, workbook_item>>

ScheduleAddWorkbookReq ==
    /\ call = NoCall
    /\ \E id_ \in TargetIds, task_type \in TaskTypes :
           /\ call' = [op |-> "Schedule.add_workbook_req", id_ |-> id_,
                       task_type |-> task_type]
           /\ result' = ScheduleRequest_add_workbook_req(id_, task_type)
           /\ UNCHANGED <<filters, group_item, workbook_item>>

ScheduleAddDatasourceReq ==
    /\ call = NoCall
    /\ \E id_ \in TargetIds, task_type \in TaskTypes :
           /\ call' = [op |-> "Schedule.add_datasource_req", id_ |-> id_,
                       task_type |-> task_type]
           /\ result' = ScheduleRequest_add_datasource_req(id_, task_type)
           /\ UNCHANGED <<filters, group_item, workbook_item>>

ScheduleAddFlowReq ==
    /\ call = NoCall
    /\ \E id_ \in TargetIds, task_type \in TaskTypes :
           /\ call' = [op |-> "Schedule.add_flow_req", id_ |-> id_,
                       task_type |-> task_type]
           /\ result' = ScheduleRequest_add_flow_req(id_, task_type)
           /\ UNCHANGED <<filters, group_item, workbook_item>>

NextSchedule ==
    \/ ScheduleCreateReq
    \/ ScheduleUpdateReq
    \/ ScheduleAddWorkbookReq
    \/ ScheduleAddDatasourceReq
    \/ ScheduleAddFlowReq
    \/ Discard

SpecSchedule == InitSchedule /\ [][NextSchedule]_vars

-----------------------------------------------------------------------------
(* claims about composite sub-structures *)

\* the frequencyDetails sub-trees under the schedule element of a result
FrequencyDetails(res) == ChildrenTagged(res.tree.children[1], "frequencyDetails")

\* C22: one rendering rule for a schedule interval: create_req and
\* update_req of ScheduleRequest render the same frequencyDetails sub-tree
\* for the same interval item.
C22_OneRenderingRule ==
    (call.op = "Schedule.create_req" /\ result.err = NoError
        /\ ScheduleRequest_update_req(call.item).err = NoError)
    => FrequencyDetails(result) = FrequencyDetails(ScheduleRequest_update_req(call.item))


-----------------------------------------------------------------------------
(* claims about the multipart content type *)

\* the content type the encoder produced for the body that was returned
EncoderContentType ==
    encode_multipart_formdata(
        [i \in 1..Len(result.body.parts) |-> result.body.parts[i].field],
        CHOOSE b \in Boundaries : result.body.closing = "--" \o b \o "--").content_type

RECURSIVE FromFirstSemicolon(_)
\* a content type from its first ";" on
FromFirstSemicolon(content_type) ==
    IF content_type = <<>> THEN <<>>
    ELSE IF Head(content_type) = ";" THEN content_type
    ELSE FromFirstSemicolon(Tail(content_type))

\* C23: every multipart operation returns the content type multipart/mixed
\* followed, as it is, by what the encoder's content type holds from its
\* first ";" on; so the boundary the content type names is the boundary that
\* delimits every part of the body and closes it, and the encoder's own
\* subtype does not appear.
C23_ContentTypeMixed ==
    result.returned = "multipart"
    => /\ result.content_type = <<"multipart/mixed">> \o FromFirstSemicolon(EncoderContentType)
       /\ \E b \in Boundaries :
             /\ result.content_type = <<"multipart/mixed", ";", " boundary=" \o b>>
             /\ \A i \in 1..Len(result.body.parts) : result.body.parts[i].delimiter = "--" \o b
             /\ result.body.closing = "--" \o b \o "--"
       /\ \A i \in 1..Len(result.content_type) : result.content_type[i] # "multipart/form-data"

\* a chunk of an upload returned with its two parts under the boundary 9c1e
C23_Witness ==
    /\ call.op = "Fileupload.chunk_req"
    /\ result.returned = "multipart"
    /\ Len(result.body.parts) = 2
    /\ result.body.closing = "--9c1e--"
    /\ EncoderContentType[1] = "multipart/form-data"
    /\ result.content_type[3] = " boundary=9c1e"


-----------------------------------------------------------------------------
(* claims about the precedence of the conflict error *)

\* the arguments of the last call would not pass validation on their own, or
\* the connection list is empty
ArgumentsInvalidOrEmpty ==
    \/ ~CredentialsComplete(call.connection_credentials)
    \/ call.connections.items = <<>>
    \/ \E i \in 1..Len(call.connections.items) : ~ConnectionValid(call.connections.items[i])

\* C24: a datasource or workbook publish given both connection_credentials
\* and connections fails with the conflict error whatever the two hold:
\* credentials lacking a name or a password, a connection lacking a server
\* address, and an empty connection list make no difference, and neither
\* argument has been rendered when the error is raised.
C24_ConflictTakesPrecedence ==
    (/\ call.op \in CredentialsOps
     /\ ~IsNone(call.connection_credentials)
     /\ ~IsNone(call.connections)
     /\ ArgumentsInvalidOrEmpty)
    => /\ result.err = ErrConflict
       /\ ChildrenTagged(EntityElement, "connectionCredentials") = <<>>
       /\ ChildrenTagged(EntityElement, "connections") = <<>>

\* a datasource publish given credentials without a password and an empty
\* connection list, rejected for the conflict
C24_Witness ==
    /\ call.op = "Datasource.publish_req"
    /\ ~IsNone(call.connection_credentials)
    /\ ~CredentialsComplete(call.connection_credentials)
    /\ ~IsNone(call.connections)
    /\ call.connections.items = <<>>
    /\ result.err = ErrConflict


-----------------------------------------------------------------------------
(* claims about failing calls *)

ValidationErrors ==
    {ErrGroupName, ErrGroupDomain, ErrMinimumSiteRole, ErrConflict, ErrCredentials,
     ErrNoServerAddress}

\* C25: a call that fails with a validation error leaves every field of its
\* entity as it was: update_req of GroupRequest, given default_site_role,
\* leaves minimum_site_role alone when it raises, and a failing workbook
\* publish leaves hidden_views alone.
C25_FailedCallLeavesEntity ==
    result.err \in ValidationErrors
    => /\ call.op = "Group.update_req" => group_item = call.item
       /\ call.op \in WorkbookOps => workbook_item = call.item


-----------------------------------------------------------------------------
(* claims about the group update *)

\* the group of the last call, as the call left it, is a directory group
DirectoryGroup ==
    ~IsNone(group_item.domain_name) /\ group_item.domain_name # PyStr("local")

\* the import children of the group element the last call built
ImportElements == ChildrenTagged(EntityElement, "import")

\* C26: update_req of GroupRequest, for a group with a name: the group
\* element has an import child if and only if domain_name is neither None
\* nor "local".  With the import child, minimum_site_role has to be a string
\* (or the call fails with the validation error) and is the siteRole of the
\* import child, and the group element has no minimumSiteRole; without it,
\* the group element has minimumSiteRole if and only if minimum_site_role is
\* not None.  Never both an import child and minimumSiteRole.
C26_GroupUpdateShape ==
    (call.op = "Group.update_req" /\ ~IsNone(call.item.name))
    => /\ (DirectoryGroup /\ ~IsStr(group_item.minimum_site_role))
          => result.err = ErrMinimumSiteRole /\ result.returned = "nothing"
       /\ ~(DirectoryGroup /\ ~IsStr(group_item.minimum_site_role))
          => result.err = NoError /\ result.returned = "bytes"
       /\ result.err = NoError
          => /\ (ImportElements # <<>>) <=> DirectoryGroup
             /\ DirectoryGroup
                => /\ Len(ImportElements) = 1
                   /\ GetAttrib(ImportElements[1], "siteRole") = group_item.minimum_site_role
                   /\ GetAttrib(ImportElements[1], "domainName") = group_item.domain_name
                   /\ ~HasAttrib(EntityElement, "minimumSiteRole")
             /\ ~DirectoryGroup
                => /\ HasAttrib(EntityElement, "minimumSiteRole")
                      <=> ~IsNone(group_item.minimum_site_role)
                   /\ HasAttrib(EntityElement, "minimumSiteRole")
                      => GetAttrib(EntityElement, "minimumSiteRole")
                            = group_item.minimum_site_role
             /\ ~(ImportElements # <<>> /\ HasAttrib(EntityElement, "minimumSiteRole"))

\* the update of a directory group with a role returned with its import child
C26_Witness ==
    /\ call.op = "Group.update_req"
    /\ IsNone(call.default_site_role)
    /\ call.item.domain_name = PyStr("corp.example")
    /\ IsStr(call.item.minimum_site_role)
    /\ result.returned = "bytes"
    /\ Len(ImportElements) = 1
    /\ HasAttrib(ImportElements[1], "siteRole")


-----------------------------------------------------------------------------
(* claims about the user update *)

\* attribute attr of the user element is present exactly when cond holds, and
\* then holds value
RenderedIff(attr, cond, value) ==
    /\ HasAttrib(EntityElement, attr) <=> cond
    /\ cond => GetAttrib(EntityElement, attr) = value

\* C27: update_req of UserRequest, for a user whose fields are None or
\* strings and a password that is None or a string, never fails; it renders
\* siteRole if and only if site_role is non-empty and is not
\* "ServerAdministrator", password if and only if the password argument is
\* non-empty, and fullName, email and authSetting each if and only if the
\* field is non-empty; it renders nothing else.
C27_UserUpdateReq ==
    call.op = "User.update_req"
    => /\ result.err = NoError
       /\ result.returned = "bytes"
       /\ Len(result.tree.children) = 1
       /\ EntityElement.tag = "user"
       /\ EntityElement.children = <<>>
       /\ RenderedIff("siteRole",
                      Truthy(call.item.site_role)
                          /\ call.item.site_role # PyStr("ServerAdministrator"),
                      call.item.site_role)
       /\ RenderedIff("password", Truthy(call.password), call.password)
       /\ RenderedIff("fullName", Truthy(call.item.fullname), call.item.fullname)
       /\ RenderedIff("email", Truthy(call.item.email), call.item.email)
       /\ RenderedIff("authSetting", Truthy(call.item.auth_setting), call.item.auth_setting)
       /\ \A i \in 1..Len(EntityElement.attrib) :
             EntityElement.attrib[i][1]
                \in {"siteRole", "password", "fullName", "email", "authSetting"}

\* the update of a server administrator with a new password: the password is
\* rendered, the role is not
C27_Witness ==
    /\ call.op = "User.update_req"
    /\ call.item.site_role = PyStr("ServerAdministrator")
    /\ call.password = PyStr("secret")
    /\ result.returned = "bytes"
    /\ HasAttrib(EntityElement, "password")
    /\ ~HasAttrib(EntityElement, "siteRole")


-----------------------------------------------------------------------------
(* SpecExtract: calls of RequestFactory.Workbook.embedded_extract_req *)

MaxDatasources == 3

\* datasource items as embedded_extract_req reads them: published ones, and
\* one that has no id yet
DatasourceRefs == { [id |-> id] : id \in {None, PyStr("d1"), PyStr("d2")} }

DatasourceRefLists ==
    { PyList(s) : s \in UNION { [1..n -> DatasourceRefs] : n \in 0..MaxDatasources } }

IncludeAllArgs == {Omitted, None, PyBool(TRUE), PyBool(FALSE)}

InitExtract ==
    /\ filters = <<>>
    /\ group_item = NoGroupItem
    /\ workbook_item = NoWorkbookItem
    /\ call = NoCall
    /\ result = NoResult

EmbeddedExtractReq ==
    /\ call = NoCall
    /\ \E include_all \in IncludeAllArgs,
          datasources \in {Omitted, None} \cup DatasourceRefLists :
           /\ call' = [op |-> "Workbook.embedded_extract_req",
                       include_all |-> include_all, datasources |-> datasources]
           /\ result' = WorkbookRequest_embedded_extract_req(include_all, datasources)
           /\ UNCHANGED <<filters, group_item, workbook_item>>

NextExtract == EmbeddedExtractReq \/ Discard

SpecExtract == InitExtract /\ [][NextExtract]_vars

-----------------------------------------------------------------------------
(* claims about the embedded extract request *)

\* include_all as the last call has it: true unless the caller said otherwise
IncludeAll == call.include_all = Omitted \/ Truthy(call.include_all)

\* the datasources the last call was given: none when the list is left out,
\* None or empty
SuppliedDatasources ==
    IF call.datasources = Omitted \/ IsNone(call.datasources) THEN <<>>
    ELSE call.datasources.items

\* C28: embedded_extract_req builds exactly one datasources element under
\* the root.  With include_all true the element has includeAll="true" and no
\* child, whatever list is supplied; with include_all false it has no
\* includeAll and one datasource child per supplied datasource, in the order
\* of the list, each with the id of its item and nothing else.  The call
\* returns the serialized tree unless a listed id is not a string.
C28_EmbeddedExtract ==
    call.op = "Workbook.embedded_extract_req"
    => /\ result.tree.tag = "tsRequest"
       /\ Len(result.tree.children) = 1
       /\ EntityElement.tag = "datasources"
       /\ IncludeAll
          => /\ EntityElement.attrib = << <<"includeAll", PyStr("true")>> >>
             /\ EntityElement.children = <<>>
             /\ result.returned = "bytes"
       /\ ~IncludeAll
          => /\ EntityElement.attrib = <<>>
             /\ Len(EntityElement.children) = Len(SuppliedDatasources)
             /\ \A i \in 1..Len(SuppliedDatasources) :
                   EntityElement.children[i]
                      = SetAttrib(Element("datasource"), "id", SuppliedDatasources[i].id)
             /\ (result.returned = "bytes")
                <=> \A i \in 1..Len(SuppliedDatasources) : IsStr(SuppliedDatasources[i].id)
       /\ result.returned = "bytes" => result.payload = SerializeElement(result.tree)

\* two datasources listed with include_all false: two children, in order
C28_Witness ==
    /\ call.op = "Workbook.embedded_extract_req"
    /\ call.include_all = PyBool(FALSE)
    /\ Len(SuppliedDatasources) = 2
    /\ SuppliedDatasources[1].id = PyStr("d2")
    /\ SuppliedDatasources[2].id = PyStr("d1")
    /\ result.returned = "bytes"
    /\ GetAttrib(EntityElement.children[1], "id") = PyStr("d2")
    /\ GetAttrib(EntityElement.children[2], "id") = PyStr("d1")


-----------------------------------------------------------------------------
(* claims about adding a target to a schedule *)

AddToScheduleOps ==
    {"Schedule.add_workbook_req", "Schedule.add_datasource_req", "Schedule.add_flow_req"}

\* the tag of the target each builder names
TargetTag ==
    CASE call.op = "Schedule.add_workbook_req" -> "workbook"
      [] call.op = "Schedule.add_datasource_req" -> "datasource"
      [] call.op = "Schedule.add_flow_req" -> "flow"

\* the task type of the last call: the one given, else extract refresh for a
\* workbook or a datasource and run flow for a flow
TaskType ==
    IF call.task_type # NotGiven THEN call.task_type
    ELSE IF call.op = "Schedule.add_flow_req" THEN RunFlow ELSE ExtractRefresh

\* C29: add_workbook_req, add_datasource_req and add_flow_req of
\* ScheduleRequest fail with the validation error whenever id_ is not a
\* string (None included), having built nothing; for a string, empty or not,
\* they return root > task > task type > target, the target tagged workbook,
\* datasource or flow and carrying the id as its only attribute, no other
\* element carrying any.
C29_AddToSchedule ==
    call.op \in AddToScheduleOps
    => /\ ~IsStr(call.id_)
          => /\ result.err = ErrIdNotString
             /\ NothingReturned
             /\ result.tree = Element("none")
       /\ IsStr(call.id_)
          => /\ result.err = NoError
             /\ result.returned = "bytes"
             /\ result.tree
                  = AppendChild(Element("tsRequest"),
                       AppendChild(Element("task"),
                          AppendChild(Element(TaskType),
                             SetAttrib(Element(TargetTag), "id", call.id_))))
             /\ result.payload = SerializeElement(result.tree)

\* a flow added to a schedule without a task type: the run-flow task
C29_Witness ==
    /\ call.op = "Schedule.add_flow_req"
    /\ call.task_type = NotGiven
    /\ call.id_ = PyStr("a1b2")
    /\ result.returned = "bytes"
    /\ EntityElement.children[1].tag = RunFlow
    /\ EntityElement.children[1].children[1].tag = "flow"


====
